---- MODULE Spec2Model ----
(***************************************************************************)
(* Payment / subscription reconciliation core of the SkillSwap backend.    *)
(*                                                                         *)
(* The document store is MongoDB behind Mongoose 8 models with their       *)
(* default, strict schemas.  A stored document is a record holding the     *)
(* fields the code reads and writes, under the names the code uses (a      *)
(* handler that reads subscriptionEndDate and one that writes              *)
(* subscriptionExpiresAt touch different fields).  Only the paths a schema *)
(* declares are ever stored: a path it does not declare reads as undefined *)
(* on a loaded document, is dropped by new Model({...}) and by save(), and *)
(* matches no document in a query filter.  save() validates the document   *)
(* (required paths, enums) and rejects before anything is written;         *)
(* findByIdAndUpdate and findOneAndUpdate run no validators.  A save()     *)
(* writes the declared paths the handler modified on its own in-memory     *)
(* copy of the document.  A handler is split into steps at its store       *)
(* operations (the awaits), which is where the event loop can run another  *)
(* request and where the clock can move.                                   *)
(*                                                                         *)
(* Time is a day number (day 0 = 2024-01-01, the date of the spec's        *)
(* billing example is day 30); JavaScript Date arithmetic is modelled on   *)
(* the calendar.                                                           *)
(***************************************************************************)
EXTENDS Integers, Sequences, FiniteSets, TLC

\* ------------------------------------------------------------------ bounds
\* The clock visits the instants 0, 15, 30, ... , 15 * MaxTicks.
MaxTicks == 4
\* Request amounts range over -1 .. MaxAmount, whole tokens.
MaxAmount == 3
\* Notification counters saturate here ("this many or more").
MaxCount == 2

\* --------------------------------------------------------------- constants
MAX_RETRIES == 3
BASE_DELAY == 1000
RENEWAL_WINDOW_DAYS == 3

None == "none"
NoDate == -1

UserIds == {"u1", "u2"}
Slots == {"a", "b"}
Plans == {"pm", "py"}

Instants == {15 * k : k \in 0..MaxTicks}

\* ---------------------------------------------------------------- calendar
\* JavaScript Date: getMonth/setMonth/getFullYear/setFullYear on day numbers.
IsLeap(y) == (y % 4 = 0 /\ y % 100 # 0) \/ y % 400 = 0

DaysInYear(y) == IF IsLeap(y) THEN 366 ELSE 365

DaysInMonth(y, m) ==
    IF m = 2 THEN (IF IsLeap(y) THEN 29 ELSE 28)
    ELSE IF m \in {4, 6, 9, 11} THEN 30 ELSE 31

RECURSIVE DaysBeforeYear(_)
DaysBeforeYear(y) == IF y <= 2024 THEN 0 ELSE DaysBeforeYear(y - 1) + DaysInYear(y - 1)

RECURSIVE DaysBeforeMonth(_, _)
DaysBeforeMonth(y, m) == IF m <= 1 THEN 0 ELSE DaysBeforeMonth(y, m - 1) + DaysInMonth(y, m - 1)

\* Date(y, m, d): a day past the end of the month rolls over into the next.
DayNum(y, m, d) == DaysBeforeYear(y) + DaysBeforeMonth(y, m) + d - 1

YearOf(n) == CHOOSE y \in 2024..2040 : DaysBeforeYear(y) <= n /\ n < DaysBeforeYear(y + 1)

MonthOf(n) ==
    LET y == YearOf(n) r == n - DaysBeforeYear(y)
    IN CHOOSE m \in 1..12 : DaysBeforeMonth(y, m) <= r /\ r < DaysBeforeMonth(y, m) + DaysInMonth(y, m)

DateOf(n) == n - DaysBeforeYear(YearOf(n)) - DaysBeforeMonth(YearOf(n), MonthOf(n)) + 1

\* d.setMonth(d.getMonth() + k)
SetMonth(n, k) ==
    LET m0 == MonthOf(n) - 1 + k
    IN DayNum(YearOf(n) + (m0 \div 12), (m0 % 12) + 1, DateOf(n))

\* d.setFullYear(d.getFullYear() + k)
SetFullYear(n, k) == DayNum(YearOf(n) + k, MonthOf(n), DateOf(n))


\* ------------------------------------------------------------------- state
VARIABLES
    users,      \* User collection: id -> document
    txs,        \* Transaction collection: id -> document
    ledger,     \* deduction Transactions inserted by deductTokens, in order
    now,        \* the clock (new Date())
    h,          \* requests in flight: slot -> handler frame
    plans,      \* SubscriptionPlan collection: id -> document
    emitted     \* notifications sent: event name -> count (saturating)

vars == <<users, txs, ledger, now, h, plans, emitted>>

TxIds == {"t1", "t2"}
\* The outgoing calls that are counted: the webhook's payment_success, the
\* expiry sweep's expiration notice, the renewal sweep's gateway charge and
\* its renewal-success notification.
Events == {"payment_success", "expiration", "charge", "renewal_success"}

Sat(n) == IF n >= MaxCount THEN MaxCount ELSE n

Emit(em, ev) == [em EXCEPT ![ev] = Sat(@ + 1)]

\* A path the schema does not declare reads as undefined on a document.
Undefined == [defined |-> FALSE, items |-> {}]

NoRef == [k |-> "none"]

\* A User as the schema builds it, with the value each undeclared path the
\* handlers name reads as (undefined).
NewUser ==
    [ balance |-> 0, totalEarnings |-> 0, totalSpent |-> 0,
      isPro |-> FALSE, subscriptionStatus |-> "inactive",
      subscriptionPlan |-> None,
      subscriptionStartDate |-> NoDate, subscriptionEndDate |-> NoDate,
      subscriptionStartedAt |-> NoDate, subscriptionExpiresAt |-> NoDate,
      pendingSubscriptionTransaction |-> NoRef, pendingSubscriptionPlan |-> None,
      lastPaymentReference |-> NoRef,
      autoRenewal |-> FALSE, paymentMethods |-> FALSE,
      enrolledCourses |-> Undefined ]

\* No Transaction document, and the value each path reads as when it is unset.
NoTx ==
    [ exists |-> FALSE, userId |-> None, type |-> None, amount |-> 0, currency |-> None,
      tx_ref |-> None, txRef |-> None, status |-> None, description |-> None,
      failureReason |-> None, courseId |-> None, subscriptionPlanId |-> None,
      planDuration |-> None ]

\* -------------------------------------------------------- the document store
\* The paths userSchema declares, of those the handlers name: wallet.balance,
\* wallet.totalEarnings, wallet.totalSpent, isPro, subscriptionStatus,
\* subscriptionStartDate, subscriptionEndDate.
\* It declares no subscriptionPlan, subscriptionStartedAt,
\* subscriptionExpiresAt, pendingSubscriptionTransaction,
\* pendingSubscriptionPlan, lastPaymentReference, autoRenewal, paymentMethods
\* and no enrolledCourses.
UserPaths ==
    { "balance", "totalEarnings", "totalSpent", "isPro", "subscriptionStatus",
      "subscriptionStartDate", "subscriptionEndDate" }

\* subscriptionStatus: enum ['active', 'inactive', 'cancelled', 'past_due', 'unpaid']
SubscriptionStatuses == {"active", "inactive", "cancelled", "past_due", "unpaid"}

\* The paths transactionSchema declares, of those the handlers name.  It
\* declares txRef, and no tx_ref, failureReason, paidAt, subscriptionPlanId or
\* planDuration.
TransactionPaths ==
    {"userId", "type", "amount", "currency", "txRef", "status", "description", "courseId"}

\* type: enum ['topup', 'deduction', 'earnings', 'refund', 'withdrawal']
TransactionTypes == {"topup", "deduction", "earnings", "refund", "withdrawal"}

\* currency: enum ['NGN', 'USD', 'GHS', 'KES']
Currencies == {"NGN", "USD", "GHS", "KES"}

\* status: enum ['pending', 'successful', 'failed', 'cancelled']
TransactionStatuses == {"pending", "successful", "failed", "cancelled"}

\* A document as a query hands it to the handler: the stored value of each
\* declared path, undefined for every other.
Load(paths, blank, stored) ==
    [p \in DOMAIN stored |-> IF p \in paths THEN stored[p] ELSE blank[p]]

LoadUser(stored) == Load(UserPaths, NewUser, stored)

LoadTransaction(stored) == Load(TransactionPaths \cup {"exists"}, NoTx, stored)

\* The validation save() runs on a User: the enum of subscriptionStatus.
ValidUser(doc) == doc.subscriptionStatus \in SubscriptionStatuses

\* The validation save() runs on a Transaction: userId, type, amount, txRef
\* and description required, the enums of type, currency and status, amount
\* min 0.
ValidTransaction(doc) ==
    /\ doc.userId # None
    /\ doc.type \in TransactionTypes
    /\ doc.amount >= 0
    /\ doc.currency \in Currencies
    /\ doc.txRef # None
    /\ doc.status \in TransactionStatuses
    /\ doc.description # None


\* document.save(), once validation has passed: Mongoose writes the declared
\* paths whose value the handler changed on its loaded copy; every other path
\* stays as the store has it.
SaveModified(paths, stored, loaded, new) ==
    [p \in DOMAIN stored |-> IF p \in paths /\ new[p] # loaded[p] THEN new[p] ELSE stored[p]]

\* ------------------------------------------------------------ request frames
\* A request body: text tells that the amount arrived as a numeric string
\* ("2") and not as a JSON number (2).
NoData ==
    [ event |-> None, tx_ref |-> None, status |-> None, amount |-> 0, text |-> FALSE,
      currency |-> None, narration |-> None ]

\* The value of a local that holds no document.
Nothing == [kind |-> "nothing"]

\* A request slot: pc is the handler's position, the rest are its locals (sig
\* is the signature header received, data the body, seen the Transaction
\* status the handler read, doc and txdoc the User and the Transaction it
\* loaded, at the instant a sweep read the clock for its query, err what the
\* failed attempts of a webhook delivery threw).  op, sig, data, seen, err and
\* resp, the response sent, stay after the request has been answered.
IdleFrame ==
    [ pc |-> "idle", op |-> None, resp |-> [status |-> 0], sig |-> None, seen |-> None,
      data |-> NoData, tx |-> None, uid |-> None, retries |-> 0, delay |-> 0,
      upd |-> Nothing, bal |-> 0, spent |-> 0, earn |-> 0, err |-> None,
      doc |-> Nothing, txdoc |-> Nothing, plan |-> Nothing, at |-> NoDate ]

Idle(s) == h[s].pc = "idle"
AllIdle == \A s \in Slots : Idle(s)

\* res.status(code).send(...): the request is over.
Respond(f, code) ==
    [IdleFrame EXCEPT !.op = f.op, !.sig = f.sig, !.seen = f.seen, !.data = f.data,
                      !.err = f.err, !.resp = [status |-> code]]

\* ---------------------------------------------------------------- the clock
\* Time passes between any two steps, also between the store operations of a
\* request in flight: a handler that calls new Date() after an await reads a
\* later instant.
Tick ==
    /\ \E t \in Instants : t > now /\ now' = t
    /\ UNCHANGED <<plans, users, txs, ledger, h, emitted>>

\* ----------------------------------------------------------------- fixtures
\* Plan ids of the requests: the stored plans, the id the plan
\* createSubscriptionPlan creates receives ("pn") and an id no plan has ("px").
PlanIds == Plans \cup {"pn", "px"}

NoPlan ==
    [exists |-> FALSE, duration |-> None, price |-> 0, currency |-> None, isActive |-> FALSE]

\* A stored SubscriptionPlan: isActive defaults to true.
NewPlan(duration, price) ==
    [exists |-> TRUE, duration |-> duration, price |-> price, currency |-> "NGN", isActive |-> TRUE]

\* The SubscriptionPlan collection at start: a monthly and a yearly plan.
PlanCatalog ==
    [p \in PlanIds |-> IF p = "pm" THEN NewPlan("monthly", 2)
                       ELSE IF p = "py" THEN NewPlan("yearly", 3)
                       ELSE NoPlan]

\* A pending top-up Transaction, as initializeTopUp leaves it when the gateway
\* returned a payment link: the only pending Transaction a handler creates.
PendingTopUp(owner, amount, ref) ==
    [ NoTx EXCEPT !.exists = TRUE, !.userId = owner, !.type = "topup", !.amount = amount,
                  !.currency = "NGN", !.txRef = ref, !.status = "pending",
                  !.description = "Wallet top-up" ]

\* A user whose subscription is running, stored through the schema as the
\* subscription tests store theirs: isPro, a status of the enum, the dates.
Subscribed(end, status) ==
    [NewUser EXCEPT !.isPro = TRUE, !.subscriptionStatus = status,
                    !.subscriptionStartDate = 0, !.subscriptionEndDate = end]

\* End dates of a running period, relative to the instants of the clock: on
\* an instant (2024-01-31 is one), three and four days after one, and the day
\* before one.
PeriodEnds == {e \in 0..(15 * MaxTicks) : e % 15 \in {0, 3, 4, 14}}

\* The users a run starts from: u1 new or a subscriber, u2 new.
Accounts(statuses) ==
    { [u \in UserIds |-> IF u = "u1" THEN user ELSE NewUser] :
        user \in {NewUser} \cup {Subscribed(end, status) : end \in PeriodEnds, status \in statuses} }

\* The store when the server starts serving: u1 new or a subscriber (active or
\* past_due), u2 new; one pending top-up of u1 under the reference r1; the
\* plan catalog.
Init ==
    /\ users \in Accounts({"active", "past_due"})
    /\ txs = [t \in TxIds |-> IF t = "t1" THEN PendingTopUp("u1", 2, "r1") ELSE NoTx]
    /\ ledger = <<>>
    /\ now = 0
    /\ h = [s \in Slots |-> IdleFrame]
    /\ plans = PlanCatalog
    /\ emitted = [e \in Events |-> 0]

\* ---------------------------------------------- payment webhook (Flutterwave)
Signatures == {"missing", "wrong", "valid"}

Payload(ev, ref, st, am, cur) ==
    [ event |-> ev, tx_ref |-> ref, status |-> st, amount |-> am, text |-> FALSE,
      currency |-> cur, narration |-> None ]

\* Events for the reference r1 of the stored top-up (matching, wrong amount,
\* wrong currency, failed without a narration, with one and with an empty
\* one), for a reference r3 no Transaction carries, and another event type.
FlwPayloads ==
    { Payload("charge.completed", "r1", "successful", 2, "NGN"),
      Payload("charge.completed", "r1", "successful", MaxAmount, "NGN"),
      Payload("charge.completed", "r1", "successful", 2, "USD"),
      Payload("charge.completed", "r1", "failed", 2, "NGN"),
      [Payload("charge.completed", "r1", "failed", 2, "NGN") EXCEPT !.narration = "Insufficient funds"],
      [Payload("charge.completed", "r1", "failed", 2, "NGN") EXCEPT !.narration = ""],
      Payload("charge.completed", "r3", "successful", 2, "NGN"),
      Payload("charge.completed", "r3", "failed", 2, "NGN"),
      Payload("transfer.completed", "r1", "successful", 2, "NGN") }

\* return signature === secretHash
verifyFlutterwaveSignature(signature) == signature = "valid"

\* Transaction.findOne({ txRef: ref }): the document stored under the
\* reference.
FindOneByTxRefOnly(ref) ==
    IF \E t \in TxIds : txs[t].exists /\ txs[t].txRef = ref
    THEN CHOOSE t \in TxIds : txs[t].exists /\ txs[t].txRef = ref
    ELSE None

\* Transaction.findOne({ tx_ref: ref }): the filter names a path the schema
\* does not declare; it reaches the store as written and matches the documents
\* holding a tx_ref field, which no save() of the model writes.
FindOneByTx_ref(ref) ==
    IF \E t \in TxIds : txs[t].exists /\ txs[t].tx_ref = ref
    THEN CHOOSE t \in TxIds : txs[t].exists /\ txs[t].tx_ref = ref
    ELSE None

\* What a store operation does when an attempt issues it: it answers ("up"),
\* or it rejects because the store cannot be reached ("down"), the transient
\* error of a delivery.
StoreOutcomes == {"up", "down"}

\* The frame after an attempt has thrown.  err is "transient" while every
\* attempt of the delivery that failed did so because the store was
\* unavailable, "permanent" once one failed for another reason.
Thrown(f, cause) ==
    [f EXCEPT !.err = IF cause = "transient" /\ f.err # "permanent" THEN "transient"
                      ELSE "permanent"]

\* The frame of a delivery waiting for its next attempt.
Retry(f, delay) ==
    [f EXCEPT !.pc = "backoff", !.delay = delay, !.tx = None, !.upd = Nothing,
              !.txdoc = Nothing, !.uid = None, !.doc = Nothing]

\* The retry delay growing linearly.
Rejected_Linear(f) ==
    IF f.retries < MAX_RETRIES THEN Retry(f, BASE_DELAY * (f.retries + 1))
    ELSE Respond(f, 500)

\* Giving up acknowledged to the provider.
Rejected_Acknowledges(f) ==
    IF f.retries < MAX_RETRIES THEN Retry(f, BASE_DELAY * (2 ^ f.retries))
    ELSE Respond(f, 200)

\* The .catch of retryWithExponentialBackoff: schedule a retry or give up
\* (handleFlutterwaveWebhook's catch answers 500).
Rejected(f) ==
    IF f.retries < MAX_RETRIES THEN Retry(f, BASE_DELAY * (2 ^ f.retries))
    ELSE Respond(f, 500)

\* if (transaction.status === 'successful') return;
AlreadyProcessed(tx) == tx.status = "successful"

\* if (transaction.amount !== amount || transaction.currency !== currency) throw
AmountCurrencyMismatch(tx, data) == tx.amount # data.amount \/ tx.currency # data.currency

\* const endDate = new Date(); yearly: setFullYear(+1), otherwise setMonth(+1)
ActivationEndDate(n, planDuration) ==
    IF planDuration = "yearly" THEN SetFullYear(n, 1) ELSE SetMonth(n, 1)

\* The request arrives: signature check and event classification.  The
\* deliveries are drawn from the headers sigs and the bodies payloads.
handleFlutterwaveWebhookOf(s, sigs, payloads) ==
    /\ Idle(s)
    /\ \E sig \in sigs, payload \in payloads :
         LET f == [IdleFrame EXCEPT !.op = "flw", !.sig = sig, !.data = payload] IN
         h' = [h EXCEPT ![s] =
                 IF ~verifyFlutterwaveSignature(sig) THEN Respond(f, 401)
                 ELSE IF payload.event # "charge.completed" THEN Respond(f, 200)
                 ELSE [f EXCEPT !.pc = "findTransaction"]]
    /\ UNCHANGED <<plans, users, txs, ledger, now, emitted>>

handleFlutterwaveWebhook(s) == handleFlutterwaveWebhookOf(s, Signatures, FlwPayloads)

\* The provider delivering the successful event of the stored reference r1.
deliverSuccessfulCharge(s) ==
    handleFlutterwaveWebhookOf(s, {"valid"}, {Payload("charge.completed", "r1", "successful", 2, "NGN")})

\* processSuccessfulPayment, steps 1-3: find the Transaction, idempotency
\* check, amount/currency cross-check.  Transaction.findOne rejects when the
\* store is unavailable; that and every throw of the attempt reach the
\* .catch of the retry loop alike.
processSuccessfulPayment_find(s) ==
    /\ h[s].pc = "findTransaction" /\ h[s].data.status = "successful"
    /\ \E store \in StoreOutcomes :
         LET f == h[s]
             t == FindOneByTx_ref(f.data.tx_ref)
             tx == IF t = None THEN NoTx ELSE LoadTransaction(txs[t])
         IN h' = [h EXCEPT ![s] =
                    IF store = "down" THEN Rejected(Thrown(f, "transient"))
                    ELSE IF t = None THEN Rejected(Thrown(f, "permanent"))
                    ELSE IF AlreadyProcessed(tx)
                         THEN Respond([f EXCEPT !.seen = tx.status], 200)
                    ELSE IF AmountCurrencyMismatch(tx, f.data)
                         THEN Rejected(Thrown([f EXCEPT !.seen = tx.status], "permanent"))
                    ELSE [f EXCEPT !.pc = "saveTransaction", !.tx = t, !.seen = tx.status,
                                   !.txdoc = tx]]
    /\ UNCHANGED <<plans, users, txs, ledger, now, emitted>>

\* step 4: transaction.status = 'successful'; transaction.paidAt = new Date()
\* (not a path of the schema); await transaction.save().  save() validates the
\* loaded document and rejects a type outside the enum or a missing txRef or
\* description, and rejects when the document was deleted in the meantime;
\* the rejection is an attempt that failed.
processSuccessfulPayment_saveTransaction(s) ==
    /\ h[s].pc = "saveTransaction"
    /\ LET f == h[s]
           new == [f.txdoc EXCEPT !.status = "successful"]
       IN IF txs[f.tx].exists /\ ValidTransaction(new)
          THEN /\ txs' = [txs EXCEPT ![f.tx] = SaveModified(TransactionPaths, @, f.txdoc, new)]
               /\ h' = [h EXCEPT ![s] = [f EXCEPT !.pc = "findUser", !.txdoc = new]]
          ELSE /\ UNCHANGED txs
               /\ h' = [h EXCEPT ![s] = Rejected(Thrown(f, "permanent"))]
    /\ UNCHANGED <<plans, users, ledger, now, emitted>>

\* The user.save() the switch prepares: none, an enrollment push or the
\* subscription fields.  user.enrolledCourses.includes(...) on a user without
\* that path throws a TypeError.
GrantUpdate(tx, user, n) ==
    IF tx.type = "course_enrollment"
    THEN IF tx.courseId = None THEN [kind |-> "nothing"]
         ELSE IF ~user.enrolledCourses.defined THEN [kind |-> "throws"]
         ELSE IF tx.courseId \notin user.enrolledCourses.items
              THEN [kind |-> "enroll", course |-> tx.courseId]
         ELSE [kind |-> "nothing"]
    ELSE IF tx.type = "subscription"
    THEN IF tx.subscriptionPlanId # None
         THEN [ kind |-> "subscription", plan |-> tx.subscriptionPlanId, start |-> n,
                end |-> ActivationEndDate(n, tx.planDuration) ]
         ELSE [kind |-> "nothing"]
    ELSE [kind |-> "nothing"]

\* step 5: User.findById and the switch on transaction.type, up to user.save();
\* without a save, step 6 (the notification) follows at once.
processSuccessfulPayment_findUser(s) ==
    /\ h[s].pc = "findUser"
    /\ LET f == h[s]
           tx == f.txdoc
       IN IF tx.userId \notin UserIds
          THEN /\ h' = [h EXCEPT ![s] = Rejected(Thrown(f, "permanent"))]
               /\ UNCHANGED emitted
          ELSE LET user == LoadUser(users[tx.userId])
                   upd == GrantUpdate(tx, user, now)
               IN IF upd.kind = "throws"
                  THEN /\ h' = [h EXCEPT ![s] = Rejected(Thrown(f, "permanent"))]
                       /\ UNCHANGED emitted
                  ELSE IF upd.kind = "nothing"
                  THEN /\ h' = [h EXCEPT ![s] = Respond(f, 200)]
                       /\ emitted' = Emit(emitted, "payment_success")
                  ELSE /\ h' = [h EXCEPT ![s] = [f EXCEPT !.pc = "saveUser", !.uid = tx.userId,
                                                            !.upd = upd, !.doc = user]]
                       /\ UNCHANGED emitted
    /\ UNCHANGED <<plans, users, txs, ledger, now>>

\* The loaded user after the switch has set its fields.
ApplyGrant(user, upd) ==
    IF upd.kind = "enroll"
    THEN [user EXCEPT !.enrolledCourses.items = @ \cup {upd.course}]
    ELSE [user EXCEPT !.isPro = TRUE, !.subscriptionPlan = upd.plan,
                      !.subscriptionStatus = "active",
                      !.subscriptionStartDate = upd.start,
                      !.subscriptionEndDate = upd.end]

\* await user.save() validates and writes the modified paths; then step 6,
\* io.emit.  A rejected save is an attempt that failed.
processSuccessfulPayment_saveUser(s) ==
    /\ h[s].pc = "saveUser" /\ h[s].op = "flw"
    /\ LET f == h[s]
           new == ApplyGrant(f.doc, f.upd)
       IN IF ValidUser(new)
          THEN /\ users' = [users EXCEPT ![f.uid] = SaveModified(UserPaths, @, f.doc, new)]
               /\ emitted' = Emit(emitted, "payment_success")
               /\ h' = [h EXCEPT ![s] = Respond(f, 200)]
          ELSE /\ UNCHANGED <<users, emitted>>
               /\ h' = [h EXCEPT ![s] = Rejected(Thrown(f, "permanent"))]
    /\ UNCHANGED <<plans, txs, ledger, now>>

\* setTimeout(() => retryWithExponentialBackoff(action, retries + 1), delay)
retryWithExponentialBackoff(s) ==
    /\ h[s].pc = "backoff"
    /\ h' = [h EXCEPT ![s].pc = "findTransaction", ![s].retries = @ + 1]
    /\ UNCHANGED <<plans, users, txs, ledger, now, emitted>>

\* Other statuses: Transaction.findOne, then status = data.status.
handleFlutterwaveWebhook_find(s) ==
    /\ h[s].pc = "findTransaction" /\ h[s].data.status # "successful"
    /\ LET t == FindOneByTx_ref(h[s].data.tx_ref)
       IN h' = [h EXCEPT ![s] =
                  IF t = None THEN Respond(@, 200)
                  ELSE [@ EXCEPT !.pc = "saveFailed", !.tx = t,
                                 !.txdoc = LoadTransaction(txs[t])]]
    /\ UNCHANGED <<plans, users, txs, ledger, now, emitted>>

\* data.narration || 'Payment failed'
FailureReason(data) ==
    IF data.narration \in {None, ""} THEN "Payment failed" ELSE data.narration

\* transaction.status = data.status; transaction.failureReason = ...; save().
\* save() validates the loaded document: a rejection reaches the handler's
\* catch, which answers 500.  failureReason is not a path of the schema: the
\* status is written, the reason is not.
handleFlutterwaveWebhook_saveFailed(s) ==
    /\ h[s].pc = "saveFailed"
    /\ LET f == h[s]
           new == [f.txdoc EXCEPT !.status = f.data.status,
                                  !.failureReason = FailureReason(f.data)]
       IN IF txs[f.tx].exists /\ ValidTransaction(new)
          THEN /\ txs' = [txs EXCEPT ![f.tx] = SaveModified(TransactionPaths, @, f.txdoc, new)]
               /\ h' = [h EXCEPT ![s] = [f EXCEPT !.pc = "notifyFailed", !.txdoc = new]]
          ELSE /\ UNCHANGED txs
               /\ h' = [h EXCEPT ![s] = Respond(f, 500)]
    /\ UNCHANGED <<plans, users, ledger, now, emitted>>

\* User.findById and io.emit('payment_failed'), then 200
handleFlutterwaveWebhook_notifyFailed(s) ==
    /\ h[s].pc = "notifyFailed"
    /\ h' = [h EXCEPT ![s] = Respond(@, 200)]
    /\ UNCHANGED <<plans, users, txs, ledger, now, emitted>>

\* The next step of the payment webhook delivery in slot s.
FlwStep(s) ==
    CASE h[s].pc = "findTransaction" /\ h[s].data.status = "successful" ->
             processSuccessfulPayment_find(s)
      [] h[s].pc = "findTransaction" /\ h[s].data.status # "successful" ->
             handleFlutterwaveWebhook_find(s)
      [] h[s].pc = "saveTransaction" -> processSuccessfulPayment_saveTransaction(s)
      [] h[s].pc = "findUser" -> processSuccessfulPayment_findUser(s)
      [] h[s].pc = "saveUser" -> processSuccessfulPayment_saveUser(s)
      [] h[s].pc = "backoff" -> retryWithExponentialBackoff(s)
      [] h[s].pc = "saveFailed" -> handleFlutterwaveWebhook_saveFailed(s)
      [] h[s].pc = "notifyFailed" -> handleFlutterwaveWebhook_notifyFailed(s)
      [] OTHER -> FALSE

\* ------------------------------------------------------------ wallet service
RespondWith(f, r) == [IdleFrame EXCEPT !.op = f.op, !.data = f.data, !.resp = r]

\* The amounts of the request bodies, whole tokens; a body carries its
\* amount as a JSON number or as a numeric string (the routes validate the
\* amount and do not convert it).  Fractions of a token are left out: their
\* sums are IEEE-754 roundings.
RequestAmounts == (-1)..MaxAmount

\* The currency of a top-up body: absent (the handler's default, NGN, which
\* the Transaction schema lists) or one the schema does not list.
TopUpCurrencies == {"NGN", "EUR"}

\* Transaction.findOne({ txRef: tx_ref, userId: user._id })
FindOneByTxRef(ref, u) ==
    IF \E t \in TxIds : txs[t].exists /\ txs[t].txRef = ref /\ txs[t].userId = u
    THEN CHOOSE t \in TxIds : txs[t].exists /\ txs[t].txRef = ref /\ txs[t].userId = u
    ELSE None

\* if (!amount || amount <= 0): a number and a numeric string compare alike
\* (the string "0" is truthy and "0" <= 0 holds).
InvalidAmount(amount) == amount <= 0

\* if (user.wallet.balance < amount)
InsufficientBalance(balance, amount) == balance < amount

\* initializeTopUp: User.findById and the amount check, for the requests of
\* the users us with the amounts amounts and the currencies currencies.  The
\* store has room for one more top-up Transaction ("t2", reference "r2"): a
\* request is taken while no such document exists and no request in flight
\* holds it.
initializeTopUpOf(s, us, amounts, currencies) ==
    /\ Idle(s)
    /\ \E u \in us, amount \in amounts, currency \in currencies :
         LET f == [IdleFrame EXCEPT !.op = "topup", !.uid = u,
                                    !.data = [NoData EXCEPT !.amount = amount, !.tx_ref = "r2",
                                                            !.currency = currency]]
         IN IF InvalidAmount(amount)
            THEN h' = [h EXCEPT ![s] = Respond(f, 400)]
            ELSE /\ ~txs["t2"].exists
                 /\ \A o \in Slots : h[o].tx # "t2"
                 /\ h' = [h EXCEPT ![s] = [f EXCEPT !.pc = "tuSaveTransaction", !.tx = "t2"]]
    /\ UNCHANGED <<plans, users, txs, ledger, now, emitted>>

\* new Transaction({ type: 'topup', amount, currency, status: 'pending', txRef,
\* description, ... }).save(): every field is a path of the schema; save()
\* validates the document and rejects a currency outside the enum, which
\* reaches the catch (500) with nothing stored.
initializeTopUp_saveTransaction(s) ==
    /\ h[s].pc = "tuSaveTransaction"
    /\ LET f == h[s]
           new == [PendingTopUp(f.uid, f.data.amount, f.data.tx_ref)
                     EXCEPT !.currency = f.data.currency]
       IN IF ValidTransaction(new)
          THEN /\ txs' = [txs EXCEPT ![f.tx] = new]
               /\ h' = [h EXCEPT ![s].pc = "tuGateway"]
          ELSE /\ UNCHANGED txs
               /\ h' = [h EXCEPT ![s] = Respond(f, 500)]
    /\ UNCHANGED <<plans, users, ledger, now, emitted>>

\* await fetch(...); await response.json(): the gateway answers with status
\* success (200), with an error status (Transaction.findByIdAndDelete, then
\* 400), or the request throws (catch: 500).
initializeTopUp_gateway(s) ==
    /\ h[s].pc = "tuGateway"
    /\ \E gateway \in {"success", "error", "throws"} :
         /\ txs' = IF gateway = "error" THEN [txs EXCEPT ![h[s].tx] = NoTx] ELSE txs
         /\ h' = [h EXCEPT ![s] =
                    Respond(@, IF gateway = "success" THEN 200
                               ELSE IF gateway = "error" THEN 400 ELSE 500)]
    /\ UNCHANGED <<plans, users, ledger, now, emitted>>

\* deductTokens: User.findById, validation and balance check, for the
\* requests of the users us with the amounts amounts, sent as numbers
\* (FALSE in texts) or as numeric strings (TRUE).  The comparisons convert a
\* string to its number.
deductTokensOf(s, us, amounts, texts) ==
    /\ Idle(s)
    /\ \E u \in us, amount \in amounts, text \in texts :
         LET f == [IdleFrame EXCEPT !.op = "deduct", !.uid = u,
                                    !.data = [NoData EXCEPT !.amount = amount, !.text = text]]
             user == LoadUser(users[u])
         IN h' = [h EXCEPT ![s] =
                    IF InvalidAmount(amount) THEN Respond(f, 400)
                    ELSE IF InsufficientBalance(user.balance, amount)
                         THEN RespondWith(f, [ status |-> 400,
                                               currentBalance |-> user.balance,
                                               requiredAmount |-> amount ])
                    ELSE [f EXCEPT !.pc = "dtSaveTransaction", !.doc = user,
                                   !.bal = user.balance, !.spent = user.totalSpent]]
    /\ UNCHANGED <<plans, users, txs, ledger, now, emitted>>

\* new Transaction({ type: 'deduction', amount, status: 'successful', txRef,
\* description, ... }).save(): the schema casts the amount to its number.
deductTokens_saveTransaction(s) ==
    /\ h[s].pc = "dtSaveTransaction"
    /\ ledger' = Append(ledger, [userId |-> h[s].uid, type |-> "deduction",
                                 amount |-> h[s].data.amount, status |-> "successful"])
    /\ h' = [h EXCEPT ![s].pc = "dtSaveUser"]
    /\ UNCHANGED <<plans, users, txs, now, emitted>>

RECURSIVE Digits(_)
\* The number of decimal digits of the whole number n >= 0.
Digits(n) == IF n < 10 THEN 1 ELSE 1 + Digits(n \div 10)

\* total + amount in JavaScript, stored in a Number path: the sum for a
\* number; for a numeric string the digits of the amount appended to those
\* of the total (0 + "1" is "01", stored as 1; 1 + "1" is "11", stored as 11).
PlusAmount(total, amount, text) ==
    IF text THEN total * (10 ^ Digits(amount)) + amount ELSE total + amount

\* user.wallet.balance -= amount; user.wallet.totalSpent += amount (on the
\* document loaded at the start): -= converts a string to its number, +=
\* does not.
Debit(f) ==
    [ balance |-> f.bal - f.data.amount,
      totalSpent |-> PlusAmount(f.spent, f.data.amount, f.data.text) ]

\* await user.save(); io.emit('wallet_deduction'); 200.  save() validates the
\* loaded user: a rejection reaches the catch, 500.
deductTokens_saveUser(s) ==
    /\ h[s].pc = "dtSaveUser"
    /\ IF ValidUser(h[s].doc)
       THEN /\ users' = [users EXCEPT ![h[s].uid].balance = Debit(h[s]).balance,
                                      ![h[s].uid].totalSpent = Debit(h[s]).totalSpent]
            /\ h' = [h EXCEPT ![s] = Respond(@, 200)]
       ELSE /\ UNCHANGED users
            /\ h' = [h EXCEPT ![s] = Respond(@, 500)]
    /\ UNCHANGED <<plans, txs, ledger, now, emitted>>

\* verifyPayment: User.findById, for the requests of the users us with the
\* references refs.
verifyPaymentOf(s, us, refs) ==
    /\ Idle(s)
    /\ \E u \in us, ref \in refs :
         LET user == LoadUser(users[u]) IN
         h' = [h EXCEPT ![s] =
                 [IdleFrame EXCEPT !.op = "verify", !.pc = "vpFindTransaction", !.uid = u,
                                   !.data = [NoData EXCEPT !.tx_ref = ref], !.doc = user,
                                   !.bal = user.balance, !.earn = user.totalEarnings]]
    /\ UNCHANGED <<plans, users, txs, ledger, now, emitted>>

\* if (transaction.status === 'successful') return 200 'Payment already verified'
AlreadyVerified(tx) == tx.status = "successful"

\* Transaction.findOne, the already-verified check, then the gateway's verify
\* call: successful, not successful, or the request throws.
verifyPayment_findTransaction(s) ==
    /\ h[s].pc = "vpFindTransaction"
    /\ LET f == h[s]
           t == FindOneByTxRef(f.data.tx_ref, f.uid)
           tx == IF t = None THEN NoTx ELSE LoadTransaction(txs[t])
       IN \E gateway \in {"successful", "failed", "throws"} :
            h' = [h EXCEPT ![s] =
                    IF t = None THEN Respond(f, 404)
                    ELSE IF AlreadyVerified(tx) THEN Respond([f EXCEPT !.seen = tx.status], 200)
                    ELSE IF gateway = "throws" THEN Respond([f EXCEPT !.seen = tx.status], 500)
                    ELSE [f EXCEPT !.pc = "vpSaveTransaction", !.tx = t, !.seen = tx.status,
                                   !.txdoc = tx, !.upd = [kind |-> gateway],
                                   !.data.amount = tx.amount]]
    /\ UNCHANGED <<plans, users, txs, ledger, now, emitted>>

\* transaction.status = 'successful' | 'failed'; await transaction.save().
\* save() of a document deleted in the meantime, or of one that fails
\* validation, rejects: the catch answers 500.
verifyPayment_saveTransaction(s) ==
    /\ h[s].pc = "vpSaveTransaction"
    /\ LET f == h[s]
           new == [f.txdoc EXCEPT !.status = f.upd.kind]
       IN IF txs[f.tx].exists /\ ValidTransaction(new)
          THEN /\ txs' = [txs EXCEPT ![f.tx] = SaveModified(TransactionPaths, @, f.txdoc, new)]
               /\ h' = [h EXCEPT ![s] =
                          IF f.upd.kind = "successful" THEN [f EXCEPT !.pc = "vpSaveUser"]
                          ELSE Respond(f, 400)]
          ELSE /\ UNCHANGED txs
               /\ h' = [h EXCEPT ![s] = Respond(f, 500)]
    /\ UNCHANGED <<plans, users, ledger, now, emitted>>

\* user.wallet.balance += transaction.amount; totalEarnings likewise
Credit(f) == [balance |-> f.bal + f.data.amount, totalEarnings |-> f.earn + f.data.amount]

\* await user.save(); io.emit('walletUpdate'); 200.  A rejected save reaches
\* the catch, 500.
verifyPayment_saveUser(s) ==
    /\ h[s].pc = "vpSaveUser"
    /\ IF ValidUser(h[s].doc)
       THEN /\ users' = [users EXCEPT ![h[s].uid].balance = Credit(h[s]).balance,
                                      ![h[s].uid].totalEarnings = Credit(h[s]).totalEarnings]
            /\ h' = [h EXCEPT ![s] = Respond(@, 200)]
       ELSE /\ UNCHANGED users
            /\ h' = [h EXCEPT ![s] = Respond(@, 500)]
    /\ UNCHANGED <<plans, txs, ledger, now, emitted>>

\* addTokensToWallet(userId, amount, txRef, description), for the calls with
\* the user ids us, the amounts amounts and the references refs: the function
\* checks none of them against a Transaction.  User.findById; without a user
\* it throws to its caller (recorded as 500).
addTokensToWalletOf(s, us, amounts, refs) ==
    /\ Idle(s)
    /\ \E u \in us, amount \in amounts, ref \in refs :
         LET f == [IdleFrame EXCEPT !.op = "addTokens", !.uid = u,
                                    !.data = [NoData EXCEPT !.tx_ref = ref, !.amount = amount]]
         IN h' = [h EXCEPT ![s] =
                    IF u \notin UserIds THEN Respond(f, 500)
                    ELSE [f EXCEPT !.pc = "atSaveUser", !.doc = LoadUser(users[u]),
                                   !.bal = users[u].balance, !.earn = users[u].totalEarnings]]
    /\ UNCHANGED <<plans, users, txs, ledger, now, emitted>>

\* user.wallet.balance += amount; user.wallet.totalEarnings += amount; save();
\* a rejected save is thrown to the caller (recorded as 500).
addTokensToWallet_saveUser(s) ==
    /\ h[s].pc = "atSaveUser"
    /\ IF ValidUser(h[s].doc)
       THEN /\ users' = [users EXCEPT ![h[s].uid].balance = Credit(h[s]).balance,
                                      ![h[s].uid].totalEarnings = Credit(h[s]).totalEarnings]
            /\ h' = [h EXCEPT ![s].pc = "atUpdateTransaction"]
       ELSE /\ UNCHANGED users
            /\ h' = [h EXCEPT ![s] = Respond(@, 500)]
    /\ UNCHANGED <<plans, txs, ledger, now, emitted>>

\* Transaction.findOneAndUpdate({ txRef }, { status: 'successful' }); the
\* function returns { success: true } (recorded as 200).
addTokensToWallet_updateTransaction(s) ==
    /\ h[s].pc = "atUpdateTransaction"
    /\ LET t == FindOneByTxRefOnly(h[s].data.tx_ref)
       IN txs' = IF t = None THEN txs ELSE [txs EXCEPT ![t].status = "successful"]
    /\ h' = [h EXCEPT ![s] = Respond(@, 200)]
    /\ UNCHANGED <<plans, users, ledger, now, emitted>>

\* The next step of the wallet request in slot s.
WalletStep(s) ==
    CASE h[s].pc = "tuSaveTransaction" -> initializeTopUp_saveTransaction(s)
      [] h[s].pc = "tuGateway" -> initializeTopUp_gateway(s)
      [] h[s].pc = "dtSaveTransaction" -> deductTokens_saveTransaction(s)
      [] h[s].pc = "dtSaveUser" -> deductTokens_saveUser(s)
      [] h[s].pc = "vpFindTransaction" -> verifyPayment_findTransaction(s)
      [] h[s].pc = "vpSaveTransaction" -> verifyPayment_saveTransaction(s)
      [] h[s].pc = "vpSaveUser" -> verifyPayment_saveUser(s)
      [] h[s].pc = "atSaveUser" -> addTokensToWallet_saveUser(s)
      [] h[s].pc = "atUpdateTransaction" -> addTokensToWallet_updateTransaction(s)
      [] OTHER -> FALSE

\* ---------------------------------------------------- subscription controller
\* Transaction references of the subscription controller:
\* `SUB_${userId}_${planId}_${Date.now()}`
SubRef(u, p, t) == [k |-> "SUB", u |-> u, p |-> p, t |-> t]
OtherRef == [k |-> "other"]

\* The text of a transaction reference as it travels in a webhook body.
RefText(ref) == IF ref.k = "SUB" THEN "SUB_" ELSE "other"

\* The authenticated users of the subscription requests.
Subscribers == {"u1"}

\* expiryDate = new Date(now); monthly: setMonth(+1); yearly: setFullYear(+1)
ExpiryDate(n, duration) ==
    IF duration = "monthly" THEN SetMonth(n, 1)
    ELSE IF duration = "yearly" THEN SetFullYear(n, 1)
    ELSE n

\* user.isPro && user.subscriptionExpiresAt && user.subscriptionExpiresAt > new Date()
HasActiveSubscription(user, n) ==
    user.isPro /\ user.subscriptionExpiresAt # NoDate /\ user.subscriptionExpiresAt > n

\* initiateSubscription: the planId check and SubscriptionPlan.findById.
initiateSubscription(s) ==
    /\ Idle(s)
    /\ \E u \in Subscribers, planId \in PlanIds \cup {None} :
         LET f == [IdleFrame EXCEPT !.op = "subscribe", !.uid = u] IN
         h' = [h EXCEPT ![s] =
                 IF planId = None THEN Respond(f, 400)
                 ELSE IF ~(plans[planId].exists /\ plans[planId].isActive) THEN Respond(f, 404)
                 ELSE [f EXCEPT !.pc = "isFindUser", !.plan = plans[planId],
                                !.upd = [planId |-> planId]]]
    /\ UNCHANGED <<plans, users, txs, ledger, now, emitted>>

\* User.findById and the active-subscription check (the payment link is mocked).
initiateSubscription_findUser(s) ==
    /\ h[s].pc = "isFindUser"
    /\ LET user == LoadUser(users[h[s].uid])
       IN h' = [h EXCEPT ![s] =
                  IF HasActiveSubscription(user, now) THEN Respond(@, 400)
                  ELSE [@ EXCEPT !.pc = "isSaveUser", !.doc = user]]
    /\ UNCHANGED <<plans, users, txs, ledger, now, emitted>>

\* const transactionRef = `SUB_...${Date.now()}`;
\* user.pendingSubscriptionTransaction = transactionRef;
\* user.pendingSubscriptionPlan = planId; await user.save(); 200 with the
\* reference and the plan's currency (the amount answered is
\* plan.effectivePrice, which no SubscriptionPlan has: the answer carries no
\* amount).  Neither field is a path of the schema; a save() that fails
\* validation reaches the catch, 500.  No Transaction is created.
initiateSubscription_saveUser(s) ==
    /\ h[s].pc = "isSaveUser"
    /\ LET f == h[s]
           ref == SubRef(f.uid, f.upd.planId, now)
           new == [f.doc EXCEPT !.pendingSubscriptionTransaction = ref,
                                !.pendingSubscriptionPlan = f.upd.planId]
       IN IF ValidUser(new)
          THEN /\ users' = [users EXCEPT ![f.uid] = SaveModified(UserPaths, @, f.doc, new)]
               /\ h' = [h EXCEPT ![s] =
                          Respond([f EXCEPT !.data = [NoData EXCEPT !.tx_ref = RefText(ref),
                                                                    !.currency = f.plan.currency]],
                                  200)]
          ELSE /\ UNCHANGED users
               /\ h' = [h EXCEPT ![s] = Respond(f, 500)]
    /\ UNCHANGED <<plans, txs, ledger, now, emitted>>

\* The user fields verifySubscription sets, from the plan document plan it
\* loaded.
Activate(user, planId, plan, n, ref) ==
    [user EXCEPT !.isPro = TRUE, !.subscriptionPlan = planId,
                 !.subscriptionStartedAt = n,
                 !.subscriptionExpiresAt = ExpiryDate(n, plan.duration),
                 !.subscriptionStatus = "active",
                 !.lastPaymentReference = ref,
                 !.pendingSubscriptionTransaction = NoRef,
                 !.pendingSubscriptionPlan = None]

\* The reference of u1's first subscription payment, for the monthly plan.
FirstReference == SubRef("u1", "pm", 0)

\* verifySubscription: the body check, User.findById and the comparison with
\* the pending reference (the gateway verification is mocked and always
\* reports a successful payment).  The bodies carry no reference, a reference
\* the controller never issued or one it issued.
verifySubscription(s) ==
    /\ Idle(s)
    /\ \E u \in Subscribers, transactionId \in BOOLEAN :
       \E transactionRef \in {NoRef, OtherRef, FirstReference} :
         LET f == [IdleFrame EXCEPT !.op = "verifySubscription", !.uid = u]
             user == LoadUser(users[u])
         IN h' = [h EXCEPT ![s] =
                    IF transactionRef = NoRef /\ ~transactionId THEN Respond(f, 400)
                    ELSE IF transactionRef # NoRef
                            /\ user.pendingSubscriptionTransaction # transactionRef
                         THEN Respond(f, 400)
                    ELSE [f EXCEPT !.pc = "vsFindPlan", !.doc = user,
                                   !.upd = [ref |-> transactionRef,
                                            planId |-> user.pendingSubscriptionPlan]]]
    /\ UNCHANGED <<plans, users, txs, ledger, now, emitted>>

\* SubscriptionPlan.findById(planId): 500 without a plan.
verifySubscription_findPlan(s) ==
    /\ h[s].pc = "vsFindPlan"
    /\ LET planId == h[s].upd.planId
       IN h' = [h EXCEPT ![s] =
                  IF planId = None \/ ~plans[planId].exists THEN Respond(@, 500)
                  ELSE [@ EXCEPT !.pc = "vsSaveUser", !.plan = plans[planId]]]
    /\ UNCHANGED <<plans, users, txs, ledger, now, emitted>>

\* The subscription fields set on the loaded user; await user.save(); 200
verifySubscription_saveUser(s) ==
    /\ h[s].pc = "vsSaveUser"
    /\ LET f == h[s]
           new == Activate(f.doc, f.upd.planId, f.plan, now, f.upd.ref)
       IN /\ users' = [users EXCEPT ![f.uid] = SaveModified(UserPaths, @, f.doc, new)]
          /\ h' = [h EXCEPT ![s] = Respond(f, 200)]
    /\ UNCHANGED <<plans, txs, ledger, now, emitted>>

\* The check reading the end date the schema declares.
NothingToCancel_ByEndDate(user) == ~user.isPro \/ user.subscriptionEndDate = NoDate

\* if (!user.isPro || !user.subscriptionExpiresAt) 400
NothingToCancel(user) == ~user.isPro \/ user.subscriptionExpiresAt = NoDate

\* cancelSubscription: User.findById and the check.
cancelSubscription(s) ==
    /\ Idle(s)
    /\ \E u \in Subscribers :
         LET f == [IdleFrame EXCEPT !.op = "cancel", !.uid = u]
             user == LoadUser(users[u])
         IN h' = [h EXCEPT ![s] =
                    IF NothingToCancel(user) THEN Respond(f, 400)
                    ELSE [f EXCEPT !.pc = "csSaveUser", !.doc = user]]
    /\ UNCHANGED <<plans, users, txs, ledger, now, emitted>>

\* user.subscriptionStatus = 'cancelled'; await user.save(); 200.  A save()
\* that fails validation reaches the catch, 500.
cancelSubscription_saveUser(s) ==
    /\ h[s].pc = "csSaveUser"
    /\ LET f == h[s]
           new == [f.doc EXCEPT !.subscriptionStatus = "cancelled"]
       IN IF ValidUser(new)
          THEN /\ users' = [users EXCEPT ![f.uid] = SaveModified(UserPaths, @, f.doc, new)]
               /\ h' = [h EXCEPT ![s] = Respond(f, 200)]
          ELSE /\ UNCHANGED users
               /\ h' = [h EXCEPT ![s] = Respond(f, 500)]
    /\ UNCHANGED <<plans, txs, ledger, now, emitted>>

\* The webhook bodies delivered: a completed charge for a subscriber and a
\* plan under each reference, another event, a failed charge, and charges
\* whose metadata names no user or no plan.
SubPayloads ==
    [ event : {"charge.completed"}, tx_ref : {OtherRef, FirstReference},
      status : {"successful"}, userId : Subscribers, planId : Plans ]
    \cup { [event |-> "transfer.completed", tx_ref |-> OtherRef, status |-> "successful",
            userId |-> "u1", planId |-> "pm"],
           [event |-> "charge.completed", tx_ref |-> OtherRef, status |-> "failed",
            userId |-> "u1", planId |-> "pm"],
           [event |-> "charge.completed", tx_ref |-> OtherRef, status |-> "successful",
            userId |-> None, planId |-> "pm"],
           [event |-> "charge.completed", tx_ref |-> OtherRef, status |-> "successful",
            userId |-> "u1", planId |-> None] }

\* handleWebhook as the router calls it.  The route is given the method taken
\* off the controller instance (export const { handleWebhook } = ...; nothing
\* calls it on the instance), so it runs with this undefined:
\* this.verifyWebhookSignature throws inside the try, before the signature
\* or the body is looked at, and the catch answers 500.
handleWebhook(s) ==
    /\ Idle(s)
    /\ \E sig \in Signatures, payload \in SubPayloads :
         h' = [h EXCEPT ![s] =
                 Respond([IdleFrame EXCEPT !.op = "handleWebhook", !.sig = sig,
                                           !.data = [NoData EXCEPT !.event = payload.event,
                                                                   !.status = payload.status]],
                         500)]
    /\ UNCHANGED <<plans, users, txs, ledger, now, emitted>>

\* The next step of the subscription request in slot s.
SubscriptionStep(s) ==
    CASE h[s].pc = "isFindUser" -> initiateSubscription_findUser(s)
      [] h[s].pc = "isSaveUser" -> initiateSubscription_saveUser(s)
      [] h[s].pc = "vsFindPlan" -> verifySubscription_findPlan(s)
      [] h[s].pc = "vsSaveUser" -> verifySubscription_saveUser(s)
      [] h[s].pc = "csSaveUser" -> cancelSubscription_saveUser(s)
      [] OTHER -> FALSE

\* ------------------------------------------------------------ plan management
\* The validation save() runs on a SubscriptionPlan: duration required, of
\* the enum ['monthly', 'yearly']; price required, min 0; the currency enum.
ValidPlan(doc) ==
    /\ doc.duration \in {"monthly", "yearly"}
    /\ doc.price >= 0
    /\ doc.currency \in {"NGN", "USD", "EUR", "GBP"}

\* The bodies of the plan-creation requests (currency left to its default):
\* a monthly plan, a free yearly plan, a plan with a duration outside the
\* enum and one with a negative price.
PlanBodies ==
    { [duration |-> "monthly", price |-> 1],
      [duration |-> "yearly", price |-> 0],
      [duration |-> "weekly", price |-> 1],
      [duration |-> "monthly", price |-> -1] }

\* createSubscriptionPlan: new SubscriptionPlan(req.body).save(), 201; a
\* rejected save reaches the catch, 500.  The store has room for one more
\* plan ("pn"): a request is taken while it does not exist.
createSubscriptionPlan(s) ==
    /\ Idle(s)
    /\ ~plans["pn"].exists
    /\ \E body \in PlanBodies :
         LET f == [IdleFrame EXCEPT !.op = "createSubscriptionPlan"]
             new == NewPlan(body.duration, body.price)
         IN IF ValidPlan(new)
            THEN /\ plans' = [plans EXCEPT !["pn"] = new]
                 /\ h' = [h EXCEPT ![s] = Respond(f, 201)]
            ELSE /\ UNCHANGED plans
                 /\ h' = [h EXCEPT ![s] = Respond(f, 500)]
    /\ UNCHANGED <<users, txs, ledger, now, emitted>>

\* The update document of findByIdAndUpdate applied to a stored plan: the
\* field of the body set to its value.
ApplyPlanUpdate(plan, update) ==
    IF update.field = "duration" THEN [plan EXCEPT !.duration = update.value]
    ELSE IF update.field = "price" THEN [plan EXCEPT !.price = update.value]
    ELSE [plan EXCEPT !.isActive = update.value]

\* updatePlan: findByIdAndUpdate(id, req.body, { new: true }), no validators;
\* the requests are drawn from the ids planIds and the bodies updates.
updatePlanOf(s, planIds, updates) ==
    /\ Idle(s)
    /\ \E planId \in planIds, update \in updates :
         LET f == [IdleFrame EXCEPT !.op = "updatePlan"] IN
         IF ~plans[planId].exists
         THEN UNCHANGED plans /\ h' = [h EXCEPT ![s] = Respond(f, 404)]
         ELSE /\ plans' = [plans EXCEPT ![planId] = ApplyPlanUpdate(@, update)]
              /\ h' = [h EXCEPT ![s] = Respond(f, 200)]
    /\ UNCHANGED <<users, txs, ledger, now, emitted>>

\* The update validators findByIdAndUpdate runs with runValidators: true, on
\* the path the update sets: the duration enum, price min 0.
ValidPlanUpdate(update) ==
    IF update.field = "duration" THEN update.value \in {"monthly", "yearly"}
    ELSE IF update.field = "price" THEN update.value >= 0
    ELSE TRUE

\* updateSubscriptionPlan: findByIdAndUpdate(planId, req.body, { new: true,
\* runValidators: true }).  The validators run before the query: an update
\* they reject reaches the catch, 500, and stores nothing; 404 without a
\* plan; else the update is stored, 200.  The requests are drawn from the
\* ids planIds and the bodies updates.
updateSubscriptionPlanOf(s, planIds, updates) ==
    /\ Idle(s)
    /\ \E planId \in planIds, update \in updates :
         LET f == [IdleFrame EXCEPT !.op = "updateSubscriptionPlan"] IN
         IF ~ValidPlanUpdate(update)
         THEN UNCHANGED plans /\ h' = [h EXCEPT ![s] = Respond(f, 500)]
         ELSE IF ~plans[planId].exists
         THEN UNCHANGED plans /\ h' = [h EXCEPT ![s] = Respond(f, 404)]
         ELSE /\ plans' = [plans EXCEPT ![planId] = ApplyPlanUpdate(@, update)]
              /\ h' = [h EXCEPT ![s] = Respond(f, 200)]
    /\ UNCHANGED <<users, txs, ledger, now, emitted>>

\* deletePlan: findByIdAndUpdate(id, { isActive: false }, { new: true })
deletePlan(s) ==
    /\ Idle(s)
    /\ \E planId \in PlanIds :
         LET f == [IdleFrame EXCEPT !.op = "deletePlan"] IN
         IF ~plans[planId].exists
         THEN UNCHANGED plans /\ h' = [h EXCEPT ![s] = Respond(f, 404)]
         ELSE /\ plans' = [plans EXCEPT ![planId].isActive = FALSE]
              /\ h' = [h EXCEPT ![s] = Respond(f, 200)]
    /\ UNCHANGED <<users, txs, ledger, now, emitted>>

\* The plan changes an administrator makes between the sweeps: the monthly
\* plan's duration set to a value outside the schema's enum, and its price
\* set to 0.
RenewalPlanUpdates ==
    { [field |-> "duration", value |-> "quarterly"],
      [field |-> "duration", value |-> "weekly"],
      [field |-> "price", value |-> 0] }

\* The bodies of PUT /api/subscriptions/plans/:planId: the changes above, a
\* negative price and a deactivation.
PlanUpdateBodies ==
    RenewalPlanUpdates \cup { [field |-> "price", value |-> -1],
                              [field |-> "isActive", value |-> FALSE] }

\* ------------------------------------------------------- subscription service
\* User.find({ isPro: true, subscriptionStatus: { $in: ['active', 'past_due'] },
\*             subscriptionEndDate: { $lt: now } })
ExpiredUsers(us, n) ==
    { u \in UserIds : /\ us[u].isPro
                      /\ us[u].subscriptionStatus \in {"active", "past_due"}
                      /\ us[u].subscriptionEndDate # NoDate
                      /\ us[u].subscriptionEndDate < n }

\* The expiry update without the isPro field.
expireSubscription_KeepsPro(user, n) ==
    [user EXCEPT !.subscriptionStatus = "expired", !.subscriptionEndDate = n]

\* The expiry update writing only the end date.
expireSubscription_DateOnly(user, n) == [user EXCEPT !.subscriptionEndDate = n]

\* User.findByIdAndUpdate(user._id, { isPro: false, subscriptionStatus: 'expired',
\*                                    subscriptionEndDate: new Date() })
\* (an update runs no validators: the status is stored as given)
expireSubscription(user, n) ==
    [user EXCEPT !.isPro = FALSE, !.subscriptionStatus = "expired", !.subscriptionEndDate = n]

\* The User collection after a run of checkExpiredSubscriptions at instant n,
\* alone.
AfterExpirySweep(us, n) ==
    [u \in UserIds |-> IF u \in ExpiredUsers(us, n) THEN expireSubscription(us[u], n) ELSE us[u]]

\* The frame of a sweep that is over: what it was, the instant of its query
\* and the number of users the query found.
SweepOver(f) == [IdleFrame EXCEPT !.op = f.op, !.at = f.at, !.seen = f.seen]

\* checkExpiredSubscriptions: const now = new Date() and the query, which
\* loads the expired users; the run is over at once when it finds none.
checkExpiredSubscriptions(s) ==
    /\ Idle(s)
    /\ LET expired == ExpiredUsers(users, now)
           f == [IdleFrame EXCEPT !.op = "expiry", !.at = now, !.seen = Cardinality(expired)]
       IN h' = [h EXCEPT ![s] =
                  IF expired = {} THEN SweepOver(f)
                  ELSE [f EXCEPT !.pc = "exExpire",
                                 !.upd = [ left |-> expired,
                                           docs |-> [u \in expired |-> LoadUser(users[u])] ]]]
    /\ UNCHANGED <<plans, users, txs, ledger, now, emitted>>

\* for (const user of expiredUsers) await this.expireSubscription(user): the
\* update of one loaded user, with the instant new Date() gives when the
\* update is made, and its expiration notification; the run ends with the
\* last one.
checkExpiredSubscriptions_expire(s) ==
    /\ h[s].pc = "exExpire"
    /\ \E u \in h[s].upd.left :
         /\ users' = [users EXCEPT ![u] = expireSubscription(@, now)]
         /\ emitted' = Emit(emitted, "expiration")
         /\ h' = [h EXCEPT ![s] =
                    IF h[s].upd.left = {u} THEN SweepOver(@)
                    ELSE [@ EXCEPT !.upd.left = @ \ {u}]]
    /\ UNCHANGED <<plans, txs, ledger, now>>

\* threeDaysFromNow.setDate(getDate() + 3);
\* User.find({ isPro: true, subscriptionStatus: 'active',
\*             subscriptionEndDate: { $lte: threeDaysFromNow }, autoRenewal: true })
\* autoRenewal is not a path of the schema: the condition reaches the store as
\* written and holds for the documents that carry such a field.
RenewalCandidates(us, n) ==
    { u \in UserIds : /\ us[u].isPro
                      /\ us[u].subscriptionStatus = "active"
                      /\ us[u].subscriptionEndDate # NoDate
                      /\ us[u].subscriptionEndDate <= n + RENEWAL_WINDOW_DAYS
                      /\ us[u].autoRenewal }

\* .populate(path) on a query whose documents exist: Mongoose refuses a path
\* the schema does not declare (StrictPopulateError).
Populates(path) == path \in UserPaths

\* extendSubscription: the new end date, from the previous one.  An unknown
\* duration throws inside its own try, and so does the update of a user
\* without an end date (new Date(undefined) is an invalid date, which the
\* update cannot cast): nothing is written.
extendSubscription(user, plan) ==
    IF user.subscriptionEndDate = NoDate THEN user
    ELSE IF plan.duration = "monthly"
    THEN [user EXCEPT !.subscriptionEndDate = SetMonth(@, 1), !.subscriptionStatus = "active"]
    ELSE IF plan.duration = "yearly"
    THEN [user EXCEPT !.subscriptionEndDate = SetFullYear(@, 1), !.subscriptionStatus = "active"]
    ELSE IF plan.duration = "quarterly"
    THEN [user EXCEPT !.subscriptionEndDate = SetMonth(@, 3), !.subscriptionStatus = "active"]
    ELSE user

\* User.findByIdAndUpdate(user._id, { subscriptionStatus: 'past_due' })
markSubscriptionAsPastDue(user) == [user EXCEPT !.subscriptionStatus = "past_due"]

\* What can happen to one renewal attempt: the gateway charges ("success"),
\* declines ("failed") or throws ("throws"); the payment-method lookup throws;
\* or the charge succeeds and the store update of the attempt rejects.
RenewalOutcomes == {"success", "failed", "throws", "lookup_throws", "update_throws"}

\* getUserPaymentMethod: User.findById(userId).select('paymentMethods'); null
\* without a stored method or when the lookup throws.
getUserPaymentMethod(user, outcome) == user.paymentMethods /\ outcome # "lookup_throws"

\* The plan document of the user in the catalog ps, null when the user names
\* no stored plan.
PopulatedPlan(ps, user) ==
    IF user.subscriptionPlan \in PlanIds THEN ps[user.subscriptionPlan] ELSE NoPlan

\* The attempt reaches processPayment: a payment method was found and the
\* populated plan has a price (if (!plan || !plan.price) marks past due).
Charged(user, plan, outcome) ==
    /\ getUserPaymentMethod(user, outcome)
    /\ plan.exists
    /\ plan.price # 0

\* attemptAutoRenewal(user) on the loaded user and its populated plan: the
\* user document its updates make.  A rejected findByIdAndUpdate is caught and
\* logged inside extendSubscription: nothing is written.
attemptAutoRenewal(user, plan, outcome) ==
    IF ~Charged(user, plan, outcome) THEN markSubscriptionAsPastDue(user)
    ELSE IF outcome = "success" THEN extendSubscription(user, plan)
    ELSE IF outcome = "update_throws" THEN user
    ELSE markSubscriptionAsPastDue(user)

\* processPayment reported success: the attempt goes on to extendSubscription
\* and sendRenewalSuccessNotification.
PaymentSucceeded(user, plan, outcome) ==
    Charged(user, plan, outcome) /\ outcome \in {"success", "update_throws"}

\* The candidate query without the autoRenewal condition.
RenewalCandidates_AnySetting(us, n) ==
    { u \in UserIds : /\ us[u].isPro
                      /\ us[u].subscriptionStatus = "active"
                      /\ us[u].subscriptionEndDate # NoDate
                      /\ us[u].subscriptionEndDate <= n + RENEWAL_WINDOW_DAYS }

\* The sweep without the autoRenewal condition and without the population of
\* the plan: every active subscriber whose period ends within the window is
\* handed to attemptAutoRenewal.
processAutoRenewals_Unfiltered(s) ==
    /\ Idle(s)
    /\ LET candidates == RenewalCandidates_AnySetting(users, now)
           f == [IdleFrame EXCEPT !.op = "renewals", !.at = now, !.seen = Cardinality(candidates)]
       IN h' = [h EXCEPT ![s] =
                  IF candidates = {} THEN SweepOver(f)
                  ELSE [f EXCEPT !.pc = "rnPaymentMethod",
                                 !.upd = [ left |-> candidates,
                                           docs |-> [u \in candidates |-> LoadUser(users[u])],
                                           populated |-> [u \in candidates |->
                                                            PopulatedPlan(plans, users[u])] ]]]
    /\ UNCHANGED <<plans, users, txs, ledger, now, emitted>>

\* processAutoRenewals: the query and .populate('subscriptionPlan').  The run
\* is over at once when the query finds nobody; when it finds users, the
\* population of a path the schema does not declare throws, the catch logs it
\* and no attempt is started.
processAutoRenewals(s) ==
    /\ Idle(s)
    /\ LET candidates == RenewalCandidates(users, now)
           f == [IdleFrame EXCEPT !.op = "renewals", !.at = now, !.seen = Cardinality(candidates)]
       IN h' = [h EXCEPT ![s] =
                  IF candidates = {} \/ ~Populates("subscriptionPlan") THEN SweepOver(f)
                  ELSE [f EXCEPT !.pc = "rnPaymentMethod",
                                 !.upd = [ left |-> candidates,
                                           docs |-> [u \in candidates |-> LoadUser(users[u])],
                                           populated |-> [u \in candidates |->
                                                            PopulatedPlan(plans, users[u])] ]]]
    /\ UNCHANGED <<plans, users, txs, ledger, now, emitted>>

\* attemptAutoRenewal for the next loaded candidate, step 1:
\* getUserPaymentMethod reads the user's paymentMethods from the store.  What
\* will happen to this attempt is drawn here and kept in the frame.
attemptAutoRenewal_paymentMethod(s) ==
    /\ h[s].pc = "rnPaymentMethod"
    /\ \E u \in h[s].upd.left, outcome \in RenewalOutcomes :
         LET doc == [h[s].upd.docs[u] EXCEPT !.paymentMethods = LoadUser(users[u]).paymentMethods]
             plan == h[s].upd.populated[u]
         IN h' = [h EXCEPT ![s] =
                    [@ EXCEPT !.pc = IF Charged(doc, plan, outcome) THEN "rnCharge" ELSE "rnUpdate",
                              !.uid = u, !.doc = doc, !.plan = plan,
                              !.data = [NoData EXCEPT !.status = outcome]]]
    /\ UNCHANGED <<plans, users, txs, ledger, now, emitted>>

\* step 3: processPayment, the gateway charge.
attemptAutoRenewal_charge(s) ==
    /\ h[s].pc = "rnCharge"
    /\ emitted' = Emit(emitted, "charge")
    /\ h' = [h EXCEPT ![s].pc = "rnUpdate"]
    /\ UNCHANGED <<plans, users, txs, ledger, now>>

\* What the attempt's User.findByIdAndUpdate writes on the stored user: the
\* past-due status; or the end date computed from the loaded document and the
\* status active; or nothing when the attempt made no update.
RenewalWrite(stored, doc, plan, outcome) ==
    LET new == attemptAutoRenewal(doc, plan, outcome) IN
    IF new = doc THEN stored
    ELSE IF new.subscriptionStatus = "past_due"
    THEN [stored EXCEPT !.subscriptionStatus = "past_due"]
    ELSE [stored EXCEPT !.subscriptionEndDate = new.subscriptionEndDate,
                        !.subscriptionStatus = "active"]

\* step 4: extendSubscription and the success notification, or
\* markSubscriptionAsPastDue; then the next candidate, and the run ends with
\* the last one.
attemptAutoRenewal_update(s) ==
    /\ h[s].pc = "rnUpdate"
    /\ LET f == h[s]
           outcome == f.data.status
       IN /\ users' = [users EXCEPT ![f.uid] = RenewalWrite(@, f.doc, f.plan, outcome)]
          /\ emitted' = IF PaymentSucceeded(f.doc, f.plan, outcome)
                        THEN Emit(emitted, "renewal_success") ELSE emitted
          /\ h' = [h EXCEPT ![s] =
                     IF f.upd.left = {f.uid} THEN SweepOver(f)
                     ELSE [f EXCEPT !.pc = "rnPaymentMethod", !.upd.left = @ \ {f.uid},
                                    !.uid = None, !.doc = Nothing, !.plan = Nothing,
                                    !.data = NoData]]
    /\ UNCHANGED <<plans, txs, ledger, now>>

\* The next step of the sweep in slot s.
SweepStep(s) ==
    CASE h[s].pc = "exExpire" -> checkExpiredSubscriptions_expire(s)
      [] h[s].pc = "rnPaymentMethod" -> attemptAutoRenewal_paymentMethod(s)
      [] h[s].pc = "rnCharge" -> attemptAutoRenewal_charge(s)
      [] h[s].pc = "rnUpdate" -> attemptAutoRenewal_update(s)
      [] OTHER -> FALSE

\* SubscriptionService.extendSubscription(user, plan) called with a stored
\* user and a stored plan: one findByIdAndUpdate, computed from the user's
\* end date.  The frame keeps the user, the plan and the end date the call
\* started from.  No call is made for an end date beyond the last instant of
\* the clock.
callExtendSubscription(s) ==
    /\ Idle(s)
    /\ \E u \in UserIds, p \in Plans :
         /\ users[u].subscriptionEndDate <= 15 * MaxTicks
         /\ users' = [users EXCEPT ![u] = extendSubscription(@, plans[p])]
         /\ h' = [h EXCEPT ![s] =
                    [IdleFrame EXCEPT !.op = "extendSubscription", !.uid = u,
                                      !.plan = plans[p], !.at = users[u].subscriptionEndDate]]
    /\ UNCHANGED <<plans, txs, ledger, now, emitted>>

\* SubscriptionService.markSubscriptionAsPastDue(user) called with a stored
\* user, subscriber or not: the update has no precondition.
callMarkSubscriptionAsPastDue(s) ==
    /\ Idle(s)
    /\ \E u \in UserIds :
         /\ users' = [users EXCEPT ![u] = markSubscriptionAsPastDue(@)]
         /\ h' = [h EXCEPT ![s] = [IdleFrame EXCEPT !.op = "markSubscriptionAsPastDue", !.uid = u]]
    /\ UNCHANGED <<plans, txs, ledger, now, emitted>>

\* ------------------------------------------------------------ specifications
\* The payment webhook and the daily subscription sweeps, one request at a
\* time (slot "a"), while the clock runs.
Next ==
    \/ Tick
    \/ (AllIdle /\ handleFlutterwaveWebhook("a"))
    \/ FlwStep("a")
    \/ (AllIdle /\ checkExpiredSubscriptions("a"))
    \/ (AllIdle /\ processAutoRenewals("a"))
    \/ SweepStep("a")

Spec == Init /\ [][Next]_vars

\* The subscription controller, one request at a time (slot "a").
SubscriptionNext ==
    \/ Tick
    \/ (AllIdle /\ initiateSubscription("a"))
    \/ (AllIdle /\ verifySubscription("a"))
    \/ (AllIdle /\ cancelSubscription("a"))
    \/ (AllIdle /\ handleWebhook("a"))
    \/ SubscriptionStep("a")

SubscriptionSpec == Init /\ [][SubscriptionNext]_vars

\* The life of a subscription: the payment webhook, the subscription
\* controller (subscribe, verify, cancel, its webhook), the two daily sweeps,
\* the update functions of the subscription service and the passing of time,
\* the requests one after another (slot "a") while the subscription service
\* runs next to them (slot "b").
LifecycleNext ==
    \/ Tick
    \/ deliverSuccessfulCharge("a")
    \/ FlwStep("a")
    \/ initiateSubscription("a")
    \/ verifySubscription("a")
    \/ cancelSubscription("a")
    \/ handleWebhook("a")
    \/ SubscriptionStep("a")
    \/ checkExpiredSubscriptions("b")
    \/ processAutoRenewals("b")
    \/ SweepStep("b")
    \/ callExtendSubscription("b")
    \/ callMarkSubscriptionAsPastDue("b")

LifecycleSpec == Init /\ [][LifecycleNext]_vars

\* The store of the wallet service at start: new users, no Transaction.
WalletInit ==
    /\ users = [u \in UserIds |-> NewUser]
    /\ txs = [t \in TxIds |-> NoTx]
    /\ ledger = <<>>
    /\ now = 0
    /\ h = [s \in Slots |-> IdleFrame]
    /\ plans = PlanCatalog
    /\ emitted = [e \in Events |-> 0]

\* The store the wallet service serves next to the expiry sweep: u1 new or a
\* subscriber whose period ends on 2024-01-15, u2 new, and a pending top-up
\* of u1 under the reference r1.
AccountsInit ==
    /\ users \in { [u \in UserIds |-> IF u = "u1" THEN user ELSE NewUser] :
                     user \in {NewUser, Subscribed(14, "active")} }
    /\ txs = [t \in TxIds |-> IF t = "t1" THEN PendingTopUp("u1", 2, "r1") ELSE NoTx]
    /\ ledger = <<>>
    /\ now = 0
    /\ h = [s \in Slots |-> IdleFrame]
    /\ plans = PlanCatalog
    /\ emitted = [e \in Events |-> 0]

\* The operations on a wallet.
WalletOps == {"topup", "verify", "addTokens", "deduct"}

\* Every wallet operation of user u has returned: the operations of one user
\* form a series, each starting after the one before it was answered.
Returned(u) == \A o \in Slots : (h[o].op \in WalletOps /\ h[o].uid = u) => Idle(o)

\* Series of deductTokens calls with the amount sent as a number, and the
\* verification of u1's top-up, each user's requests one after another, while
\* the requests of the other user and the expiry sweep are handled next to
\* them (slots "a", "b") and the clock runs.  No deduction starts once
\* MaxCount deductions are recorded and no verification once u1 holds
\* MaxAmount or more.
WalletNext ==
    \/ Tick
    \/ \E s \in Slots :
         \/ \E u \in UserIds :
              /\ Returned(u) /\ Len(ledger) < MaxCount
              /\ deductTokensOf(s, {u}, RequestAmounts, {FALSE})
         \/ ( /\ Returned("u1") /\ users["u1"].balance < MaxAmount
              /\ verifyPaymentOf(s, {"u1"}, {"r1"}) )
         \/ WalletStep(s)
         \/ checkExpiredSubscriptions(s)
         \/ SweepStep(s)

WalletSpec == AccountsInit /\ [][WalletNext]_vars

\* Wallet requests of one user handled concurrently (slots "a", "b"): top-ups
\* of 0 and of 2 tokens in NGN and in a currency the schema does not list,
\* their verification, and deductions of 1 and 2 sent as numbers.  The run is
\* cut once MaxCount deductions are recorded or the balance reaches MaxAmount.
WalletRaceNext ==
    \E s \in Slots :
        \/ initializeTopUpOf(s, {"u1"}, {0, 2}, TopUpCurrencies)
        \/ (Len(ledger) < MaxCount /\ deductTokensOf(s, {"u1"}, {1, 2}, {FALSE}))
        \/ (users["u1"].balance < MaxAmount /\ verifyPaymentOf(s, {"u1"}, {"r2"}))
        \/ WalletStep(s)

WalletRaceSpec == WalletInit /\ [][WalletRaceNext]_vars

\* Crediting one pending top-up of u1: verifyPayment requests and
\* addTokensToWallet calls for its owner, amount and reference, handled
\* concurrently (slots "a", "b"); no new call starts once u1 has earned
\* MaxAmount or more.
TopUpInit ==
    /\ users = [u \in UserIds |-> NewUser]
    /\ txs = [t \in TxIds |-> IF t = "t2" THEN PendingTopUp("u1", 2, "r2") ELSE NoTx]
    /\ ledger = <<>>
    /\ now = 0
    /\ h = [s \in Slots |-> IdleFrame]
    /\ plans = PlanCatalog
    /\ emitted = [e \in Events |-> 0]

TopUpNext ==
    \E s \in Slots :
        \/ (users["u1"].totalEarnings < MaxAmount /\ verifyPaymentOf(s, {"u1"}, {"r2"}))
        \/ (users["u1"].totalEarnings < MaxAmount
              /\ addTokensToWalletOf(s, {"u1"}, {2}, {"r2"}))
        \/ WalletStep(s)

TopUpSpec == TopUpInit /\ [][TopUpNext]_vars

\* Sequential series of wallet operations from new users: a top-up of u1
\* and its verification, addTokensToWallet calls crediting a user (or an id
\* no user has) with 1 token, and deductTokens requests for 1 or 2 tokens,
\* sent as a number or as a numeric string.  The operations of one user
\* follow one another; those of different users are handled concurrently
\* (slots "a", "b").  No credit starts for a user who has earned MaxAmount
\* or more, and no deduction once MaxCount deductions are recorded.
LedgerNext ==
    \E s \in Slots :
        \/ (Returned("u1") /\ initializeTopUpOf(s, {"u1"}, {2}, {"NGN"}))
        \/ ( /\ Returned("u1") /\ users["u1"].totalEarnings < MaxAmount
             /\ verifyPaymentOf(s, {"u1"}, {"r2"}) )
        \/ \E u \in UserIds \cup {"gone"} :
             /\ Returned(u)
             /\ u \in UserIds => users[u].totalEarnings < MaxAmount
             /\ addTokensToWalletOf(s, {u}, {1}, {"r2"})
        \/ \E u \in UserIds :
             /\ Returned(u) /\ Len(ledger) < MaxCount
             /\ deductTokensOf(s, {u}, {1, 2}, BOOLEAN)
        \/ WalletStep(s)

LedgerSpec == WalletInit /\ [][LedgerNext]_vars

\* The provider confirming the payment a subscriber started: the successful
\* event for the reference the last subscribe request returned, in the
\* currency it returned, for the amount the provider charged.
deliverSubscriptionCharge(s) ==
    /\ h[s].op = "subscribe" /\ h[s].resp.status = 200
    /\ handleFlutterwaveWebhookOf(s, {"valid"},
          { Payload("charge.completed", h[s].data.tx_ref, "successful",
                    amount, h[s].data.currency) : amount \in 1..MaxAmount })

\* Subscribing end to end: plans are created, repriced and deactivated, a
\* user subscribes, then the payment webhook is delivered for the returned
\* reference, one request at a time (slot "a").
SubscribeNext ==
    \/ Tick
    \/ (AllIdle /\ createSubscriptionPlan("a"))
    \/ (AllIdle /\ updatePlanOf("a", {"pn", "px"}, {[field |-> "price", value |-> 0]}))
    \/ (AllIdle /\ updateSubscriptionPlanOf("a", {"pn", "px"}, PlanUpdateBodies))
    \/ (AllIdle /\ deletePlan("a"))
    \/ (AllIdle /\ initiateSubscription("a"))
    \/ SubscriptionStep("a")
    \/ (AllIdle /\ deliverSubscriptionCharge("a"))
    \/ FlwStep("a")

SubscribeSpec == Init /\ [][SubscribeNext]_vars

\* The payment webhook over a store holding two pending top-ups, of u1 under
\* the reference r1 and of u2 under r2, one delivery at a time (slot "a").
ReconcileInit ==
    /\ users = [u \in UserIds |-> NewUser]
    /\ txs = [t \in TxIds |-> IF t = "t1" THEN PendingTopUp("u1", 2, "r1")
                              ELSE PendingTopUp("u2", 2, "r2")]
    /\ ledger = <<>>
    /\ now = 0
    /\ h = [s \in Slots |-> IdleFrame]
    /\ plans = PlanCatalog
    /\ emitted = [e \in Events |-> 0]

ReconcileNext ==
    \/ Tick
    \/ (AllIdle /\ handleFlutterwaveWebhook("a"))
    \/ FlwStep("a")

ReconcileSpec == ReconcileInit /\ [][ReconcileNext]_vars

\* The daily sweeps and the service's update functions over running
\* subscriptions: u1 active or past_due with an end date of the period; u2 without
\* a subscription or with one ending 2024-02-01.
RenewalInit ==
    /\ \E end \in PeriodEnds, status \in {"active", "past_due"},
          other \in {NewUser, Subscribed(DayNum(2024, 2, 1), "active")} :
         users = [u \in UserIds |-> IF u = "u1" THEN Subscribed(end, status) ELSE other]
    /\ txs = [t \in TxIds |-> NoTx]
    /\ ledger = <<>>
    /\ now = 0
    /\ h = [s \in Slots |-> IdleFrame]
    /\ plans = PlanCatalog
    /\ emitted = [e \in Events |-> 0]

RenewalNext ==
    \/ Tick
    \/ (AllIdle /\ updatePlanOf("a", {"pm"}, RenewalPlanUpdates))
    \/ (AllIdle /\ updateSubscriptionPlanOf("a", {"pm"}, RenewalPlanUpdates))
    \/ (AllIdle /\ checkExpiredSubscriptions("a"))
    \/ (AllIdle /\ processAutoRenewals("a"))
    \/ SweepStep("a")
    \/ (AllIdle /\ callExtendSubscription("a"))
    \/ (AllIdle /\ callMarkSubscriptionAsPastDue("a"))

RenewalSpec == RenewalInit /\ [][RenewalNext]_vars


\* ------------------------------------------------------------------ properties
\* C1: a correctly signed successful charge.completed delivery for a stored
\* pending Transaction, carrying its amount and currency, is applied exactly
\* once: the delivery is answered 200 and leaves the Transaction successful,
\* and a delivery that finds the Transaction already successful answers 200 at
\* once and changes no Transaction, no User field and notifies nobody.
C1_ExactlyOnce ==
    [][ \A s \in Slots :
          LET t == FindOneByTxRefOnly(h[s].data.tx_ref) IN
          /\ ( /\ h[s].op = "flw" /\ h[s].pc = "findTransaction"
               /\ h[s].data.status = "successful"
               /\ t # None
               /\ txs[t].status = "successful"
               /\ h'[s].pc # h[s].pc )
             => ( /\ h'[s].pc = "idle" /\ h'[s].resp.status = 200
                  /\ txs' = txs /\ users' = users /\ emitted' = emitted )
          /\ ( /\ h[s].op = "flw" /\ h[s].pc # "idle" /\ h[s].sig = "valid"
               /\ h[s].data.event = "charge.completed"
               /\ h[s].data.status = "successful"
               /\ t # None
               /\ txs[t].status = "pending"
               /\ txs[t].amount = h[s].data.amount
               /\ txs[t].currency = h[s].data.currency
               /\ h'[s].pc = "idle" )
             => ( /\ h'[s].resp.status = 200
                  /\ txs'[t].status = "successful" ) ]_vars

\* C3: a signed successful charge.completed delivery whose amount or currency
\* differs from the pending Transaction stored under its reference changes
\* nothing at any of its steps (the Transaction stays pending, no User field
\* moves, nobody is notified) and is answered with an error, 500, once the
\* last of its MAX_RETRIES + 1 attempts has failed.
C3_MismatchRejected ==
    [][ \A s \in Slots :
          LET t == FindOneByTxRefOnly(h[s].data.tx_ref) IN
          ( /\ h[s].op = "flw" /\ h[s].pc # "idle"
            /\ h[s].data.status = "successful"
            /\ t # None
            /\ txs[t].status = "pending"
            /\ (txs[t].amount # h[s].data.amount \/ txs[t].currency # h[s].data.currency) )
          => ( /\ txs' = txs /\ users' = users /\ emitted' = emitted
               /\ h'[s].pc = "idle" =>
                    (h'[s].resp.status = 500 /\ h[s].retries = MAX_RETRIES) ) ]_vars

\* A delivery for the reference r1 with another amount has been answered 500
\* with the Transaction pending and nobody notified.
C3_Witness ==
    /\ h["a"].op = "flw" /\ h["a"].pc = "idle" /\ h["a"].resp.status = 500
    /\ h["a"].data.tx_ref = "r1" /\ h["a"].data.amount = MaxAmount
    /\ h["a"].data.status = "successful"
    /\ txs["t1"].status = "pending" /\ txs["t1"].amount # MaxAmount
    /\ emitted["payment_success"] = 0

\* C4: a call to a webhook entry point (the payment webhook or the subscription
\* webhook) whose verif-hash header is missing or does not verify is answered
\* 401 and changes no Transaction and no User field, whatever its payload.
C4_SignatureEnforced ==
    [][ \A s \in Slots :
          ( /\ h[s].pc = "idle" /\ h'[s] # h[s]
            /\ h'[s].op \in {"flw", "handleWebhook"}
            /\ h'[s].sig \in {"missing", "wrong"} )
          => ( /\ h'[s].pc = "idle" /\ h'[s].resp.status = 401
               /\ txs' = txs /\ users' = users /\ emitted' = emitted ) ]_vars

\* C5: over sequential deductTokens calls no balance is ever below 0.  A call
\* is accepted only with 0 < amount <= balance; a rejected one is answered 400
\* (with the current balance and the required amount when the balance is
\* short) and changes no balance, no totalSpent and no Transaction; an
\* accepted one lowers the balance by exactly the amount, raises totalSpent by
\* exactly the amount and has recorded one successful deduction Transaction.
C5_DeductTokens ==
    [][ /\ \A u \in UserIds : users'[u].balance >= 0
        /\ \A s \in Slots :
             /\ ( /\ h[s].pc = "idle" /\ h'[s] # h[s] /\ h'[s].op = "deduct"
                  /\ h'[s].pc = "idle" )
                => ( /\ h'[s].resp.status = 400
                     /\ users' = users /\ txs' = txs /\ ledger' = ledger
                     /\ "currentBalance" \in DOMAIN h'[s].resp =>
                          /\ h'[s].resp.requiredAmount > h'[s].resp.currentBalance
                          /\ \E u \in UserIds : users[u].balance = h'[s].resp.currentBalance )
             /\ ( /\ h[s].pc = "idle" /\ h'[s].op = "deduct" /\ h'[s].pc # "idle" )
                => ( /\ h'[s].data.amount > 0
                     /\ h'[s].data.amount <= users[h'[s].uid].balance )
             /\ ( /\ h[s].op = "deduct" /\ h[s].pc = "dtSaveUser" /\ h'[s].pc # h[s].pc )
                => ( /\ h'[s].pc = "idle" /\ h'[s].resp.status = 200
                     /\ users'[h[s].uid].balance = users[h[s].uid].balance - h[s].data.amount
                     /\ users'[h[s].uid].totalSpent = users[h[s].uid].totalSpent + h[s].data.amount
                     /\ Len(ledger) >= 1
                     /\ ledger[Len(ledger)] = [ userId |-> h[s].uid, type |-> "deduction",
                                                amount |-> h[s].data.amount,
                                                status |-> "successful" ]
                     /\ ledger' = ledger ) ]_vars

RECURSIVE SumDebits(_, _)
\* The accepted debits of user u in a list of deduction Transactions.
SumDebits(l, u) ==
    IF l = <<>> THEN 0
    ELSE (IF Head(l).userId = u THEN Head(l).amount ELSE 0) + SumDebits(Tail(l), u)

RECURSIVE SumCredits(_, _)
\* The accepted credits of user u: the amounts of the Transactions in ts
\* verified successful.
SumCredits(ts, u) ==
    IF ts = {} THEN 0
    ELSE LET t == CHOOSE x \in ts : TRUE
         IN (IF txs[t].exists /\ txs[t].userId = u /\ txs[t].status = "successful"
             THEN txs[t].amount ELSE 0) + SumCredits(ts \ {t}, u)

\* C6: whatever the interleaving of concurrent wallet operations on a user, no
\* accepted operation is lost: once the requests are answered, the balance is
\* the initial balance (0) plus the accepted credits minus the accepted debits,
\* and totalSpent is the sum of the accepted debits.
C6_NoLostUpdate ==
    AllIdle =>
      \A u \in UserIds :
        /\ users[u].balance = SumCredits(TxIds, u) - SumDebits(ledger, u)
        /\ users[u].totalSpent = SumDebits(ledger, u)

\* C7: in every reachable state a user with isPro = true has subscriptionEndDate
\* set and subscriptionStatus active or past_due.
C7_ProInvariant ==
    \A u \in UserIds :
      users[u].isPro =>
        /\ users[u].subscriptionEndDate # NoDate
        /\ users[u].subscriptionStatus \in {"active", "past_due"}

\* The cancel request of the Pro subscriber u1 has been answered (400): u1 is
\* still Pro, with an end date, active or past_due.
C7_Witness ==
    /\ h["a"].op = "cancel" /\ h["a"].pc = "idle" /\ h["a"].resp.status = 400
    /\ users["u1"].isPro
    /\ users["u1"].subscriptionEndDate # NoDate
    /\ users["u1"].subscriptionStatus \in {"active", "past_due"}

\* C8: the status of a Transaction that is successful, failed or cancelled
\* never changes again, and a status is only ever pending, successful, failed
\* or cancelled.
C8_TerminalStatus ==
    [][ \A t \in TxIds :
          /\ (txs[t].exists /\ txs[t].status \in {"successful", "failed", "cancelled"})
               => (txs'[t].exists /\ txs'[t].status = txs[t].status)
          /\ txs'[t].exists
               => txs'[t].status \in {"pending", "successful", "failed", "cancelled"} ]_vars

\* C9: a run of checkExpiredSubscriptions selects the users that are Pro,
\* active or past_due, with an end date before the instant of its query, and
\* leaves each of them not Pro and expired; at none of its steps does any
\* field of a user it did not select change.
C9_ExpirySweep ==
    [][ \A s \in Slots :
          /\ (Idle(s) /\ h'[s].op = "expiry" /\ h'[s] # h[s])
             => LET expired == { u \in UserIds :
                                   /\ users[u].isPro
                                   /\ users[u].subscriptionStatus \in {"active", "past_due"}
                                   /\ users[u].subscriptionEndDate # NoDate
                                   /\ users[u].subscriptionEndDate < now }
                IN /\ users' = users
                   /\ h'[s].at = now
                   /\ IF expired = {} THEN h'[s].pc = "idle"
                      ELSE h'[s].pc = "exExpire" /\ h'[s].upd.left = expired
          /\ h[s].pc = "exExpire"
             => /\ \A u \in UserIds :
                     ( \/ users[u].subscriptionEndDate = NoDate
                       \/ users[u].subscriptionEndDate >= h[s].at
                       \/ u \notin DOMAIN h[s].upd.docs )
                     => users'[u] = users[u]
                /\ \A u \in DOMAIN h[s].upd.docs :
                     (h'[s].pc = "idle" \/ u \notin h'[s].upd.left)
                     => (~users'[u].isPro /\ users'[u].subscriptionStatus = "expired") ]_vars

\* The sweep has expired u1 and notified them, the clock having moved on
\* between its query and its update, and left alone u2.
C9_Witness ==
    /\ h["a"].op = "expiry" /\ h["a"].pc = "idle" /\ h["a"].seen = 1
    /\ ~users["u1"].isPro /\ users["u1"].subscriptionStatus = "expired"
    /\ users["u1"].subscriptionEndDate > h["a"].at
    /\ emitted["expiration"] >= 1
    /\ users["u2"] = NewUser

\* C10: the expiry sweep is idempotent.  When a run ends, a run of the same
\* instant would select nobody and change no user field, and no later run
\* selects a user this run expired; a second run at the instant of the first
\* selects nobody, changes no user field and sends no expiration notification,
\* as does every run that selects nobody.
C10_ExpiryIdempotent ==
    [][ \A s \in Slots :
          /\ (h[s].pc = "exExpire" /\ h'[s].pc = "idle")
             => /\ ExpiredUsers(users', h[s].at) = {}
                /\ AfterExpirySweep(users', h[s].at) = users'
                /\ \A n \in Instants :
                     ExpiredUsers(users', n) \cap DOMAIN h[s].upd.docs = {}
          /\ ( /\ Idle(s) /\ h[s].op = "expiry" /\ h[s].at = now
               /\ h'[s].op = "expiry" /\ h'[s] # h[s] )
             => ( /\ h'[s].pc = "idle" /\ h'[s].seen = 0
                  /\ users' = users /\ emitted' = emitted )
          /\ (Idle(s) /\ h'[s].op = "expiry" /\ h'[s] # h[s] /\ ExpiredUsers(users, now) = {})
             => (h'[s].pc = "idle" /\ users' = users /\ emitted' = emitted) ]_vars

\* A run has expired a subscription and a second run at the same instant has
\* found nobody.
C10_Witness ==
    /\ h["a"].op = "expiry" /\ h["a"].pc = "idle" /\ h["a"].seen = 0
    /\ h["a"].at = now
    /\ users["u1"].subscriptionStatus = "expired" /\ ~users["u1"].isPro
    /\ users["u1"].subscriptionEndDate = now
    /\ emitted["expiration"] = 1

\* Calendar arithmetic as billing periods define it: the same day of the month
\* k months later, or the last day of that month when it is shorter.
CalendarPlusMonths(n, k) ==
    LET m0 == MonthOf(n) - 1 + k
        y == YearOf(n) + (m0 \div 12)
        m == (m0 % 12) + 1
    IN DayNum(y, m, IF DateOf(n) > DaysInMonth(y, m) THEN DaysInMonth(y, m) ELSE DateOf(n))

\* The plan-duration units in months.
DurationMonths(duration) ==
    IF duration = "monthly" THEN 1 ELSE IF duration = "quarterly" THEN 3 ELSE 12

\* C11: a renewal (extendSubscription for a monthly, quarterly or yearly plan)
\* moves subscriptionEndDate to the previous end date plus one plan-duration
\* unit in calendar arithmetic (2024-01-31 plus one month is 2024-02-29).
C11_CalendarRenewal ==
    [][ \A s \in Slots :
          ( /\ h'[s].op = "extendSubscription"
            /\ h'[s].plan.duration \in {"monthly", "quarterly", "yearly"}
            /\ users'[h'[s].uid] # users[h'[s].uid] )
          => users'[h'[s].uid].subscriptionEndDate =
               CalendarPlusMonths(users[h'[s].uid].subscriptionEndDate,
                                  DurationMonths(h'[s].plan.duration)) ]_vars

\* The user document is one the renewal sweep is to charge at instant n.
Due(user, n) ==
    /\ user.isPro /\ user.autoRenewal
    /\ user.subscriptionStatus = "active"
    /\ user.subscriptionEndDate # NoDate
    /\ user.subscriptionEndDate <= n + RENEWAL_WINDOW_DAYS

\* C14: the renewal sweep attempts a charge only for users that are Pro,
\* active, on auto-renewal and whose end date is within RENEWAL_WINDOW_DAYS of
\* the instant of its query; its query changes nothing, and every other user
\* is not charged and keeps subscriptionStatus and subscriptionEndDate.
C14_RenewalFrame ==
    [][ \A s \in Slots :
          /\ (Idle(s) /\ h'[s].op = "renewals" /\ h'[s] # h[s])
             => /\ users' = users /\ emitted' = emitted
                /\ h'[s].pc # "idle" => h'[s].upd.left = {u \in UserIds : Due(users[u], now)}
          /\ (h[s].op = "renewals" /\ h[s].pc # "idle")
             => /\ \A u \in UserIds :
                     ~Due(users[u], h[s].at) =>
                       /\ users'[u].subscriptionStatus = users[u].subscriptionStatus
                       /\ users'[u].subscriptionEndDate = users[u].subscriptionEndDate
                /\ emitted'["charge"] # emitted["charge"]
                     => (h[s].pc = "rnCharge" /\ Due(users[h[s].uid], h[s].at)) ]_vars

\* A sweep has passed over u1, who is Pro, active and within the window but
\* not on auto-renewal: nobody selected, nobody charged.
C14_Witness ==
    /\ h["a"].op = "renewals" /\ h["a"].pc = "idle" /\ h["a"].seen = 0
    /\ users["u1"].isPro /\ ~users["u1"].autoRenewal
    /\ users["u1"].subscriptionStatus = "active"
    /\ users["u1"].subscriptionEndDate <= h["a"].at + RENEWAL_WINDOW_DAYS
    /\ emitted["charge"] = 0

\* C15: the processing of a successful charge.completed event is retried a
\* bounded number of times with doubling delays.  The action runs at most
\* MAX_RETRIES + 1 times; a retry is scheduled only by a failed attempt, and
\* the wait before retry k = 0, 1, 2 is BASE_DELAY * 2^k (1000, 2000, 4000 ms);
\* a delivery in progress always has a next step, so the loop ends by
\* resolving or rejecting.
C15_BoundedBackoff ==
    [][ \A s \in Slots :
          /\ h[s].retries <= MAX_RETRIES /\ h'[s].retries <= MAX_RETRIES
          /\ (h[s].pc # "backoff" /\ h'[s].pc = "backoff")
             => ( /\ h[s].pc \in {"findTransaction", "saveTransaction", "findUser", "saveUser"}
                  /\ h[s].retries \in 0..2
                  /\ h'[s].retries = h[s].retries
                  /\ h'[s].delay = BASE_DELAY * (2 ^ h[s].retries)
                  /\ h'[s].delay = (CASE h[s].retries = 0 -> 1000
                                      [] h[s].retries = 1 -> 2000
                                      [] h[s].retries = 2 -> 4000) )
          /\ (h'[s].pc # "idle" /\ h'[s].retries # h[s].retries)
             => ( /\ h[s].pc = "backoff" /\ h'[s].pc = "findTransaction"
                  /\ h'[s].retries = h[s].retries + 1 )
          /\ (h[s].op = "flw" /\ h[s].pc # "idle") => ENABLED FlwStep(s) ]_vars

\* The third retry has been scheduled, 4000 ms after the third failure.
C15_Witness ==
    /\ h["a"].op = "flw" /\ h["a"].pc = "backoff"
    /\ h["a"].retries = 2 /\ h["a"].delay = 4000

\* C16: once every retry of a transiently failing webhook event is exhausted,
\* the handler still acknowledges the event to the provider with 200: a
\* delivery of a successful event whose attempts all failed on the store, the
\* last one after MAX_RETRIES retries, is answered 200.
C16_AcknowledgedAnyway ==
    [][ \A s \in Slots :
          ( /\ h[s].op = "flw" /\ h[s].pc = "findTransaction"
            /\ h[s].data.status = "successful"
            /\ h[s].retries = MAX_RETRIES
            /\ h'[s].pc = "idle" /\ h'[s].err = "transient" )
          => h'[s].resp.status = 200 ]_vars

\* C17: an integrity error on a signed successful charge.completed event (no
\* Transaction carries the reference, or the amount or currency differs from
\* the stored one) is not retryable: the first attempt ends the delivery, no
\* backoff is scheduled, and the answer is 400.
C17_IntegrityNotRetried ==
    [][ \A s \in Slots :
          LET t == FindOneByTxRefOnly(h[s].data.tx_ref) IN
          ( /\ h[s].op = "flw" /\ h[s].pc = "findTransaction"
            /\ h[s].data.status = "successful"
            /\ \/ t = None
               \/ /\ txs[t].status # "successful"
                  /\ (txs[t].amount # h[s].data.amount \/ txs[t].currency # h[s].data.currency)
            /\ h'[s].pc # h[s].pc )
          => ( /\ h[s].retries = 0
               /\ h'[s].pc = "idle" /\ h'[s].resp.status = 400
               /\ txs' = txs /\ users' = users /\ emitted' = emitted ) ]_vars

\* C18: a signed charge.completed webhook with status failed for a pending
\* Transaction sets that Transaction to failed and records failureReason, the
\* provider's narration ('Payment failed' when the event carries none), leaves
\* every User field (wallet, isPro, subscriptionStatus, enrolled courses)
\* unchanged at each of its steps, writes nothing to the ledger, and is
\* answered 200.
C18_FailedPayment ==
    [][ \A s \in Slots :
          LET t == FindOneByTxRefOnly(h[s].data.tx_ref) IN
          ( /\ h[s].op = "flw" /\ h[s].pc # "idle" /\ h[s].sig = "valid"
            /\ h[s].data.event = "charge.completed" /\ h[s].data.status = "failed"
            /\ t # None )
          => /\ users' = users /\ ledger' = ledger
             /\ (txs[t].status = "pending" /\ h'[s].pc = "idle")
                => /\ h'[s].resp.status = 200
                   /\ txs'[t].status = "failed"
                   /\ txs'[t].failureReason = FailureReason(h[s].data) ]_vars

\* C19: top-up initiation never changes a wallet, and a top-up that does not
\* answer 200 (amount <= 0, an error status from the payment gateway, or the
\* gateway request throwing) leaves no Transaction behind: the set of stored
\* Transactions is what it was before the request.
C19_NoOrphanedTopUp ==
    [][ \A s \in Slots :
          ( h'[s].op = "topup" /\ h'[s] # h[s] )
          => ( /\ users' = users
               /\ (h'[s].pc = "idle" /\ h'[s].resp.status # 200)
                  => IF Idle(s) THEN txs' = txs ELSE ~txs'[h[s].tx].exists ) ]_vars

RECURSIVE TopUpTotal(_, _)
\* The amounts of the top-up Transactions of user u among ts.
TopUpTotal(ts, u) ==
    IF ts = {} THEN 0
    ELSE LET t == CHOOSE x \in ts : TRUE
         IN (IF txs[t].exists /\ txs[t].type = "topup" /\ txs[t].userId = u
             THEN txs[t].amount ELSE 0) + TopUpTotal(ts \ {t}, u)

\* C21: a top-up Transaction credits its owner's wallet at most once, whatever
\* the sequence and interleaving of verifyPayment and addTokensToWallet calls
\* for its reference: a wallet never holds, and has never earned, more than
\* the amounts of its owner's top-up Transactions.
C21_CreditedAtMostOnce ==
    \A u \in UserIds :
      /\ users[u].totalEarnings <= TopUpTotal(TxIds, u)
      /\ users[u].balance <= TopUpTotal(TxIds, u)

\* C23: end to end.  A subscribe request answered 200 has created a pending
\* Transaction under the returned reference with the plan's price and
\* currency, and a signed successful charge.completed delivery for that
\* reference, amount and currency ends answered 200 with the subscriber Pro
\* and active, the end date lying ahead.
C23_SubscribeEndToEnd ==
    [][ \A s \in Slots :
          /\ ( /\ h[s].op = "subscribe" /\ h[s].pc = "isSaveUser"
               /\ h'[s].pc = "idle" /\ h'[s].resp.status = 200 )
             => \E t \in TxIds :
                  /\ txs'[t].exists /\ txs'[t].status = "pending"
                  /\ (txs'[t].tx_ref = h'[s].data.tx_ref \/ txs'[t].txRef = h'[s].data.tx_ref)
                  /\ txs'[t].amount = h[s].plan.price
                  /\ txs'[t].currency = h[s].plan.currency
          /\ ( /\ h[s].op = "flw" /\ h[s].pc # "idle" /\ h'[s].pc = "idle"
               /\ h[s].data.tx_ref = RefText(FirstReference) )
             => ( /\ h'[s].resp.status = 200
                  /\ \E u \in Subscribers :
                       /\ users'[u].isPro /\ users'[u].subscriptionStatus = "active"
                       /\ users'[u].subscriptionEndDate > now ) ]_vars

\* C24: the payment webhook resolves exactly the Transaction whose stored
\* txRef equals the notified tx_ref.  An attempt that finds such a Transaction
\* pending with the notified amount and currency goes on to process it, and a
\* delivery changes no other Transaction and no user but that one's owner.
C24_ResolvesByTxRef ==
    [][ \A s \in Slots :
          ( h[s].op = "flw" /\ h[s].pc # "idle" /\ h'[s].pc # h[s].pc ) =>
            /\ \A t \in TxIds :
                 ( /\ h[s].pc = "findTransaction" /\ h[s].data.status = "successful"
                   /\ txs[t].exists /\ txs[t].txRef = h[s].data.tx_ref
                   /\ txs[t].status = "pending"
                   /\ txs[t].amount = h[s].data.amount
                   /\ txs[t].currency = h[s].data.currency )
                 => (h'[s].pc = "saveTransaction" /\ h'[s].tx = t)
            /\ \A t \in TxIds :
                 txs'[t] # txs[t] => txs[t].txRef = h[s].data.tx_ref
            /\ \A u \in UserIds :
                 users'[u] # users[u] =>
                   \E t \in TxIds : /\ txs[t].exists /\ txs[t].userId = u
                                    /\ txs[t].txRef = h[s].data.tx_ref ]_vars

\* C30: ledger identity.  From new users, after any sequence of wallet
\* operations every wallet has balance = totalEarnings - totalSpent, and none
\* of the three values is negative.
C30_LedgerIdentity ==
    \A u \in UserIds :
      /\ users[u].balance = users[u].totalEarnings - users[u].totalSpent
      /\ users[u].balance >= 0
      /\ users[u].totalEarnings >= 0
      /\ users[u].totalSpent >= 0

====
